---------------------------- MODULE Spec2Model ----------------------------
(***************************************************************************)
(* A model of the p2p-chat-mobile relay core:                              *)
(*   src/src/protocol/P2PProtocol.js     (Message, P2PProtocol)            *)
(*   src/src/network/P2PNetworkManager.js (PeerInfo, P2PNetworkManager)    *)
(*                                                                         *)
(* Bytes are integers 0..255, byte buffers (Uint8Array, Buffer) are        *)
(* sequences of bytes, JavaScript strings are sequences of UTF-16 code     *)
(* units.  JavaScript null is the record Null.                             *)
(***************************************************************************)
EXTENDS Integers, Sequences, FiniteSets, TLC

(***************************************************************************)
(* Bounds of the model.                                                    *)
(***************************************************************************)
\* longest payload enumerated byte by byte by the codec specification
MaxPayloadLen == 2
\* longest text handed to createChatMessage by the codec specification
MaxTextLen == 2
\* length of the one long payload (more than 255 bytes: both length bytes are used)
LongPayloadLen == 300

\* the size the dedup cache may reach before it is halved.  P2PProtocol.js:122
\* compares with 10000; the model scales the limit down so that eviction happens
\* within a few checks, and every formula is stated in terms of CacheLimit.
CacheLimit == 3
\* isDuplicate calls in one run of the dedup specification
MaxChecks == 10
\* outer frames on the stream of the framer specification
MaxFrames == 2

(***************************************************************************)
(* Program constants.                                                      *)
(***************************************************************************)
\* P2PProtocol.js:37  this.HEADER_SIZE = 8
HEADER_SIZE == 8
\* P2PProtocol.js:38  this.MAX_PAYLOAD_SIZE = 65535 (the constructor's literal, line 22)
MAX_PAYLOAD_SIZE == 65535
\* P2PProtocol.js:19  ttl > 7
MAX_TTL == 7

\* P2PProtocol.js:6-15
MessageType ==
    [PING |-> 1, PONG |-> 2, PEER_DISCOVERY |-> 3, PEER_ANNOUNCEMENT |-> 4,
     CHAT_MESSAGE |-> 5, PRIVATE_MESSAGE |-> 6, ROUTING_UPDATE |-> 7, ACK |-> 8]

MessageTypeCodes == {MessageType[k] : k \in DOMAIN MessageType}

Null == [kind |-> "null"]

(***************************************************************************)
(* Numbers.  TLC's integers are 32 bits wide and signed; a JavaScript      *)
(* integer v in -2^31 .. 2^32-1 (a message id, an outer length read off    *)
(* the wire) is the pair << v \div 65536, v % 65536 >>, which is unique    *)
(* for each v: two ids are the same JavaScript number exactly when their   *)
(* pairs are equal.  Lengths and bytes are plain integers.                 *)
(***************************************************************************)
Wide(hi, lo) == << hi, lo >>
Hi(w) == w[1]
Lo(w) == w[2]

\* ToUint8, ToUint16 of a plain integer: the value modulo 2^w
ToUint8(x) == x % 256
ToUint16(x) == x % 65536
\* ToUint32: the value modulo 2^32
ToUint32(w) == Wide(Hi(w) % 65536, Lo(w))
\* ToInt32: the value modulo 2^32, read as two's complement
ToInt32(w) ==
    LET h == Hi(w) % 65536 IN Wide(IF h >= 32768 THEN h - 65536 ELSE h, Lo(w))

\* bitwise exclusive or of two values below 2^n
RECURSIVE XorBits(_, _, _)
XorBits(a, b, n) ==
    IF n = 0 THEN 0
    ELSE (IF (a % 2) # (b % 2) THEN 1 ELSE 0) + 2 * XorBits(a \div 2, b \div 2, n - 1)

Xor16(a, b) == XorBits(a, b, 16)

\* DataView.setUint32(_, v, false): ToUint32(v) as four bytes, big-endian
BE32(w) ==
    LET u == ToUint32(w)
    IN  << Hi(u) \div 256, Hi(u) % 256, Lo(u) \div 256, Lo(u) % 256 >>

\* Buffer.writeUInt32BE(n, 0) of a length n (a plain integer below 2^31)
LengthBE32(n) == BE32(Wide(n \div 65536, n % 65536))

\* DataView.setUint16(_, v, false): two bytes, big-endian
BE16(v) ==
    LET u == ToUint16(v) IN << u \div 256, u % 256 >>

\* DataView.getUint32(off, false) / Buffer.readUInt32BE(off); off counts from 0
GetUint32BE(data, off) ==
    Wide(data[off + 1] * 256 + data[off + 2], data[off + 3] * 256 + data[off + 4])

\* DataView.getUint16(off, false)
GetUint16BE(data, off) == data[off + 1] * 256 + data[off + 2]

\* Uint8Array.slice(from, to) / Buffer.slice(from, to), 0-based, end exclusive,
\* clamped to the buffer
Slice(data, from, to) ==
    LET t == IF to > Len(data) THEN Len(data) ELSE to
    IN  IF from >= t THEN << >> ELSE SubSeq(data, from + 1, t)

(***************************************************************************)
(* class Message (P2PProtocol.js:17-31).  The constructor throws on a ttl  *)
(* outside 0..7 and on a payload longer than 65535 bytes; a throw is the   *)
(* record [kind |-> "Error"].                                              *)
(***************************************************************************)
Message_NoTtlCheck(msgType, ttl, msgId, payload) ==
    IF Len(payload) > MAX_PAYLOAD_SIZE
    THEN [kind |-> "Error", message |-> "Payload too large (max 65535 bytes)"]
    ELSE [kind |-> "Message", msgType |-> msgType, ttl |-> ttl,
          msgId |-> msgId, payload |-> payload]

Message(msgType, ttl, msgId, payload) ==
    IF ttl < 0 \/ ttl > MAX_TTL
    THEN [kind |-> "Error", message |-> "TTL must be between 0 and 7"]
    ELSE IF Len(payload) > MAX_PAYLOAD_SIZE
    THEN [kind |-> "Error", message |-> "Payload too large (max 65535 bytes)"]
    ELSE [kind |-> "Message", msgType |-> msgType, ttl |-> ttl,
          msgId |-> msgId, payload |-> payload]

IsMessage(m) == m.kind = "Message"

(***************************************************************************)
(* P2PProtocol.serialize (P2PProtocol.js:44-63)                            *)
(***************************************************************************)
serialize_LittleEndianId(message) ==
    << ToUint8(message.msgType), ToUint8(message.ttl) >>
        \o << BE32(message.msgId)[4], BE32(message.msgId)[3],
              BE32(message.msgId)[2], BE32(message.msgId)[1] >>
        \o BE16(Len(message.payload))
        \o message.payload

serialize(message) ==
    << ToUint8(message.msgType), ToUint8(message.ttl) >>
        \o BE32(message.msgId)
        \o BE16(Len(message.payload))
        \o message.payload

(***************************************************************************)
(* P2PProtocol.deserialize (P2PProtocol.js:68-92)                          *)
(***************************************************************************)
deserialize_LengthLittleEndian(data) ==
    IF Len(data) < HEADER_SIZE THEN Null
    ELSE LET payloadLength == data[8] * 256 + data[7]
         IN  IF Len(data) < HEADER_SIZE + payloadLength THEN Null
             ELSE LET made == Message(data[1], data[2], GetUint32BE(data, 2),
                                      Slice(data, HEADER_SIZE, HEADER_SIZE + payloadLength))
                  IN  IF IsMessage(made) THEN made ELSE Null

\* without the try/catch around the constructor
deserialize_NoCatch(data) ==
    IF Len(data) < HEADER_SIZE THEN Null
    ELSE LET payloadLength == GetUint16BE(data, 6)
         IN  IF Len(data) < HEADER_SIZE + payloadLength THEN Null
             ELSE Message(data[1], data[2], GetUint32BE(data, 2),
                          Slice(data, HEADER_SIZE, HEADER_SIZE + payloadLength))

deserialize(data) ==
    IF Len(data) < HEADER_SIZE THEN Null
    ELSE LET msgType == data[1]
             ttl == data[2]
             msgId == GetUint32BE(data, 2)
             payloadLength == GetUint16BE(data, 6)
         IN  IF Len(data) < HEADER_SIZE + payloadLength THEN Null
             ELSE LET payload == Slice(data, HEADER_SIZE, HEADER_SIZE + payloadLength)
                      made == Message(msgType, ttl, msgId, payload)
                  IN  IF IsMessage(made) THEN made ELSE Null

(***************************************************************************)
(* TextEncoder.encode / TextDecoder.decode: UTF-8 of code units below      *)
(* U+D800 (one, two or three bytes).                                       *)
(***************************************************************************)
Utf8OfUnit(c) ==
    IF c < 128 THEN << c >>
    ELSE IF c < 2048 THEN << 192 + (c \div 64), 128 + (c % 64) >>
    ELSE << 224 + (c \div 4096), 128 + ((c \div 64) % 64), 128 + (c % 64) >>

RECURSIVE TextEncode(_)
TextEncode(text) ==
    IF Len(text) = 0 THEN << >>
    ELSE IF Len(text) = 1 THEN Utf8OfUnit(text[1])
    ELSE LET half == Len(text) \div 2
         IN  TextEncode(SubSeq(text, 1, half))
                 \o TextEncode(SubSeq(text, half + 1, Len(text)))

IsCont(b) == b >= 128 /\ b < 192

\* U+FFFD replaces every byte that does not start a well-formed sequence
RECURSIVE TextDecode(_)
TextDecode(bytes) ==
    IF bytes = << >> THEN << >>
    ELSE LET b == bytes[1]
             n == Len(bytes)
         IN  IF b < 128 THEN << b >> \o TextDecode(Tail(bytes))
             ELSE IF b >= 194 /\ b < 224 /\ n >= 2 /\ IsCont(bytes[2])
             THEN << (b - 192) * 64 + (bytes[2] - 128) >>
                      \o TextDecode(SubSeq(bytes, 3, n))
             ELSE IF b >= 224 /\ b < 240 /\ n >= 3 /\ IsCont(bytes[2]) /\ IsCont(bytes[3])
                     /\ (b - 224) * 4096 + (bytes[2] - 128) * 64 + (bytes[3] - 128) >= 2048
             THEN << (b - 224) * 4096 + (bytes[2] - 128) * 64 + (bytes[3] - 128) >>
                      \o TextDecode(SubSeq(bytes, 4, n))
             ELSE << 65533 >> \o TextDecode(Tail(bytes))

\* P2PProtocol.decodeTextPayload (P2PProtocol.js:193-196)
decodeTextPayload(message) == TextDecode(message.payload)

(***************************************************************************)
(* P2PProtocol.generateMessageId (P2PProtocol.js:97-110).  now is          *)
(* Date.now(), rand is Math.floor(Math.random() * 0xFFFF), content a       *)
(* string.  << and | work on signed 32-bit integers.                       *)
(***************************************************************************)
RECURSIVE ContentHash(_, _)
ContentHash(content, contentHash) ==
    IF content = << >> THEN contentHash
    ELSE \* contentHash < 2^16, so (contentHash << 5) - contentHash + c is in 0 .. 2^21
         ContentHash(Tail(content), (contentHash * 32 - contentHash + Head(content)) % 65536)

generateMessageId(now, rand, content) ==
    LET timestamp == now % 65536
        contentHash == ContentHash(content, 0)
    IN  \* (timestamp << 16) | (random ^ contentHash): a signed 32-bit result
        ToInt32(Wide(timestamp, Xor16(rand, contentHash)))

(***************************************************************************)
(* P2PProtocol.isDuplicate (P2PProtocol.js:115-131).  messageCache is a    *)
(* JavaScript Set, which keeps insertion order: a sequence without         *)
(* repetitions.  The call returns its result and the cache it leaves.      *)
(* entries.slice(entries.length / 2) truncates a fractional start index.   *)
(***************************************************************************)
Elems(seq) == {seq[i] : i \in 1..Len(seq)}

isDuplicate_NoInsert(messageCache, msgId) ==
    [result |-> msgId \in Elems(messageCache), messageCache |-> messageCache]

isDuplicate_KeepOlderHalf(messageCache, msgId) ==
    IF msgId \in Elems(messageCache)
    THEN [result |-> TRUE, messageCache |-> messageCache]
    ELSE LET entries == Append(messageCache, msgId)
         IN  [result |-> FALSE,
              messageCache |-> IF Len(entries) > CacheLimit
                               THEN SubSeq(entries, 1, Len(entries) \div 2)
                               ELSE entries]

isDuplicate_NoCleanup(messageCache, msgId) ==
    IF msgId \in Elems(messageCache)
    THEN [result |-> TRUE, messageCache |-> messageCache]
    ELSE [result |-> FALSE, messageCache |-> Append(messageCache, msgId)]

isDuplicate(messageCache, msgId) ==
    IF msgId \in Elems(messageCache)
    THEN [result |-> TRUE, messageCache |-> messageCache]
    ELSE LET entries == Append(messageCache, msgId)
         IN  [result |-> FALSE,
              messageCache |-> IF Len(entries) > CacheLimit
                               THEN SubSeq(entries, (Len(entries) \div 2) + 1, Len(entries))
                               ELSE entries]

(***************************************************************************)
(* JSON.stringify of {nickname, timestamp} and JSON.parse of a payload.    *)
(* Nicknames hold no character that JSON escapes.  JSON.parse recognises   *)
(* the object that stringify writes, the object {} and the literal null;   *)
(* any other text is a SyntaxError.                                        *)
(***************************************************************************)
RECURSIVE Digits(_)
Digits(n) ==
    IF n < 10 THEN << 48 + n >> ELSE Digits(n \div 10) \o << 48 + (n % 10) >>

JsonNickOpen == << 123, 34, 110, 105, 99, 107, 110, 97, 109, 101, 34, 58, 34 >>
JsonTimeOpen == << 34, 44, 34, 116, 105, 109, 101, 115, 116, 97, 109, 112, 34, 58 >>
JsonClose == << 125 >>

JSONStringify(peerInfo) ==
    JsonNickOpen \o peerInfo.nickname \o JsonTimeOpen \o Digits(peerInfo.timestamp)
        \o JsonClose

IsDigit(c) == c >= 48 /\ c <= 57

RECURSIVE ParseNat(_, _)
ParseNat(text, acc) ==
    IF text = << >> THEN acc ELSE ParseNat(Tail(text), acc * 10 + (Head(text) - 48))

\* the index of the first '"' of text at or after i, 0 when there is none
RECURSIVE FindQuote(_, _)
FindQuote(text, i) ==
    IF i > Len(text) THEN 0
    ELSE IF text[i] = 34 THEN i ELSE FindQuote(text, i + 1)

JSONParse(text) ==
    LET no == Len(JsonNickOpen)
        q == FindQuote(text, no + 1)
        nt == Len(JsonTimeOpen)
    IN  IF text = << 110, 117, 108, 108 >> THEN [kind |-> "value", value |-> Null]
        ELSE IF text = << 123, 125 >> THEN [kind |-> "value", value |-> [kind |-> "object"]]
        ELSE IF /\ Len(text) > no
                /\ SubSeq(text, 1, no) = JsonNickOpen
                /\ q > 0
                /\ Len(text) >= q + nt + 1
                /\ SubSeq(text, q, q + nt - 1) = JsonTimeOpen
                /\ text[Len(text)] = 125
                /\ \A i \in (q + nt)..(Len(text) - 1) : IsDigit(text[i])
                /\ (text[q + nt] # 48 \/ q + nt = Len(text) - 1)
        THEN [kind |-> "value",
              value |-> [kind |-> "object",
                         nickname |-> SubSeq(text, no + 1, q - 1),
                         timestamp |-> ParseNat(SubSeq(text, q + nt, Len(text) - 1), 0)]]
        ELSE [kind |-> "SyntaxError"]

\* P2PProtocol.decodeJSONPayload (P2PProtocol.js:201-209): null on a parse error
decodeJSONPayload(message) ==
    LET parsed == JSONParse(decodeTextPayload(message))
    IN  IF parsed.kind = "SyntaxError" THEN Null ELSE parsed.value

(***************************************************************************)
(* Message factories (P2PProtocol.js:136-188)                              *)
(***************************************************************************)
createPing(now, rand) ==
    Message(MessageType.PING, 1, generateMessageId(now, rand, << >>), << >>)

createChatMessage(text, ttl, now, rand) ==
    Message(MessageType.CHAT_MESSAGE, ttl, generateMessageId(now, rand, text),
            TextEncode(text))

createPeerDiscovery(peerInfo, now, rand) ==
    Message(MessageType.PEER_DISCOVERY, 2,
            generateMessageId(now, rand, JSONStringify(peerInfo)),
            TextEncode(JSONStringify(peerInfo)))

createPeerAnnouncement(peerInfo, now, rand) ==
    Message(MessageType.PEER_ANNOUNCEMENT, 1, generateMessageId(now, rand, << >>),
            TextEncode(JSONStringify(peerInfo)))

(***************************************************************************)
(* P2PNetworkManager (P2PNetworkManager.js:23-447).                        *)
(*                                                                         *)
(* A node is a record:                                                     *)
(*   port, nickname   constructor arguments                                *)
(*   connections      Map peerKey -> socket, a function on the keys held   *)
(*   peers            Map peerKey -> PeerInfo                              *)
(*   messageCache     protocol.messageCache                                *)
(*   sockets          every socket that setupSocketHandlers was called on: *)
(*                    socket id -> [peerKey, messageBuffer], the two       *)
(*                    variables its handlers close over                    *)
(*   dialing          sockets created by connectToPeer that have not       *)
(*                    connected yet: socket id -> peerKey                  *)
(* A peer key `${address}:${port}` is the record PeerKey(address, port), a *)
(* string is Str(code units).                                              *)
(*                                                                         *)
(* An event handler works on a context: the node, and what the handler did *)
(* to the outside, in order:                                               *)
(*   written     socket.write calls [socket, data], with the Message and   *)
(*               the function that wrote it                                *)
(*   events      callbacks invoked (onMessage, onPeerJoined, onPeerLeft)   *)
(*   extracted   messageData of every outer frame taken off a buffer       *)
(*   handled     one record per handleMessage call                         *)
(*   checks      one record per isDuplicate call: the id, the result and   *)
(*               the ids the call evicted                                  *)
(* The order in which forwardMessage visits the sockets of different peers *)
(* is the Map's insertion order in the code; each socket is a stream of    *)
(* its own, so the model visits them by socket id.                         *)
(***************************************************************************)
Str(units) == [kind |-> "string", units |-> units]
PeerKey(address, port) == [kind |-> "peerKey", address |-> address, port |-> port]

EmptyMap == [x \in {} |-> Null]
MapSet(map, key, value) ==
    [x \in (DOMAIN map) \cup {key} |-> IF x = key THEN value ELSE map[x]]
MapDelete(map, key) == [x \in (DOMAIN map) \ {key} |-> map[x]]
MapHas(map, key) == key \in DOMAIN map

\* class PeerInfo (P2PNetworkManager.js:9-21)
PeerInfo(address, port, now) ==
    [address |-> address, port |-> port, nickname |-> Null, lastSeen |-> now,
     hopCount |-> 1]

\* constructor (P2PNetworkManager.js:24-49)
P2PNetworkManager(port, nickname) ==
    [port |-> port,
     nickname |-> IF nickname = Null \/ nickname = Str(<< >>)
                  THEN Str(<< 109, 111, 98, 105, 108, 101, 95 >> \o Digits(port))
                  ELSE nickname,
     connections |-> EmptyMap,
     peers |-> EmptyMap,
     isRunning |-> FALSE,
     server |-> Null,
     messageCache |-> << >>,
     sockets |-> EmptyMap,
     dialing |-> EmptyMap]

NewContext(node) ==
    [node |-> node, written |-> << >>, failed |-> << >>, events |-> << >>,
     extracted |-> << >>, handled |-> << >>, checks |-> << >>]

\* start (P2PNetworkManager.js:54-89) with a listen that succeeds
start(ctx) ==
    [ctx EXCEPT !.node.isRunning = TRUE,
                !.node.server = [kind |-> "server", port |-> ctx.node.port],
                !.events = Append(@, [callback |-> "resolve", of |-> "start"])]

\* socket.destroy() on every socket of the connection table
DestroyAll(sockets, connections) ==
    [x \in DOMAIN sockets |->
        IF \E k \in DOMAIN connections : connections[k] = x
        THEN [sockets[x] EXCEPT !.destroyed = TRUE]
        ELSE sockets[x]]

\* stop (P2PNetworkManager.js:94-110): peers is left as it is
stop(ctx) ==
    [ctx EXCEPT !.node.isRunning = FALSE,
                !.node.sockets = DestroyAll(@, ctx.node.connections),
                !.node.connections = EmptyMap,
                !.node.server = Null]

\* the outer frame: Buffer.concat([lengthBuffer, serializedMessage])
\* (P2PNetworkManager.js:368-371, 390-393, 412-415)
OuterFrame(serializedMessage) ==
    LengthBE32(Len(serializedMessage)) \o serializedMessage

\* socket.write(fullMessage) of a serialized message inside try/catch: a write that
\* throws is logged (failed) and nothing goes out
SocketWrite(ctx, socket, message, via) ==
    IF socket \in DOMAIN ctx.node.sockets /\ ctx.node.sockets[socket].failing
    THEN [ctx EXCEPT !.failed = Append(@, [socket |-> socket, via |-> via])]
    ELSE [ctx EXCEPT !.written =
             Append(@, [socket |-> socket, data |-> OuterFrame(serialize(message)),
                        message |-> message, via |-> via])]

\* the keys of connections in the order their sockets are visited
RECURSIVE KeysBySocket(_, _)
KeysBySocket(connections, keys) ==
    IF keys = {} THEN << >>
    ELSE LET first == CHOOSE k \in keys : \A o \in keys : connections[k] <= connections[o]
         IN  << first >> \o KeysBySocket(connections, keys \ {first})

\* without the try/catch: the first write that throws ends the forEach and the
\* throw reaches the caller
RECURSIVE WriteEach_StopsAtFailure(_, _, _, _)
WriteEach_StopsAtFailure(ctx, keys, message, via) ==
    IF keys = << >> THEN ctx
    ELSE IF ctx.node.sockets[ctx.node.connections[Head(keys)]].failing
    THEN [ctx EXCEPT !.events =
             Append(@, [callback |-> "throw", socket |-> ctx.node.connections[Head(keys)],
                        writes |-> Len(ctx.written)])]
    ELSE WriteEach_StopsAtFailure(
             SocketWrite(ctx, ctx.node.connections[Head(keys)], message, via),
             Tail(keys), message, via)

RECURSIVE WriteEach(_, _, _, _)
WriteEach(ctx, keys, message, via) ==
    IF keys = << >> THEN ctx
    ELSE WriteEach(SocketWrite(ctx, ctx.node.connections[Head(keys)], message, via),
                   Tail(keys), message, via)

\* forwardMessage (P2PNetworkManager.js:367-382)
forwardMessage(ctx, message, excludePeerKey) ==
    WriteEach(ctx,
              KeysBySocket(ctx.node.connections,
                           {k \in DOMAIN ctx.node.connections : k # excludePeerKey}),
              message, "forwardMessage")

\* broadcastMessage (P2PNetworkManager.js:360-362)
broadcastMessage(ctx, message) == forwardMessage(ctx, message, Null)

\* sendToPeer (P2PNetworkManager.js:387-401)
sendToPeer(ctx, message, peerKey) ==
    IF MapHas(ctx.node.connections, peerKey)
    THEN SocketWrite(ctx, ctx.node.connections[peerKey], message, "sendToPeer")
    ELSE ctx

\* sendPeerAnnouncement (P2PNetworkManager.js:406-418)
sendPeerAnnouncement(ctx, socket, now, rand) ==
    SocketWrite(ctx, socket,
                createPeerAnnouncement([nickname |-> ctx.node.nickname.units,
                                        timestamp |-> now], now, rand),
                "sendPeerAnnouncement")

\* a callback invocation, or the settling of a promise; the record notes how many
\* writes the handler had made before it
Emit(ctx, event) ==
    [ctx EXCEPT !.events =
        Append(@, [x \in (DOMAIN event) \cup {"writes"} |->
                      IF x = "writes" THEN Len(ctx.written) ELSE event[x]])]

\* handlePing (P2PNetworkManager.js:291-299)
handlePing_Broadcast(ctx, message, fromPeerKey, now, rand) ==
    broadcastMessage(ctx, Message(MessageType.PONG, 1, generateMessageId(now, rand, << >>),
                                  << >>))

handlePing(ctx, message, fromPeerKey, now, rand) ==
    sendToPeer(ctx, Message(MessageType.PONG, 1, generateMessageId(now, rand, << >>), << >>),
               fromPeerKey)

\* handlePong (P2PNetworkManager.js:304-309)
handlePong(ctx, message, fromPeerKey, now) ==
    IF MapHas(ctx.node.peers, fromPeerKey)
    THEN [ctx EXCEPT !.node.peers[fromPeerKey].lastSeen = now]
    ELSE ctx

\* handlePeerDiscovery (P2PNetworkManager.js:314-321): logs the decoded payload
\* registers the host the discovery came from under its listening port
handlePeerDiscovery_Registers(ctx, message, fromPeerKey) ==
    IF decodeJSONPayload(message) = Null THEN ctx
    ELSE [ctx EXCEPT !.node.peers =
             MapSet(@, PeerKey(fromPeerKey.address, ctx.node.port),
                    PeerInfo(fromPeerKey.address, ctx.node.port, 0))]

handlePeerDiscovery(ctx, message, fromPeerKey) == ctx

\* handlePeerAnnouncement (P2PNetworkManager.js:326-338).  With a payload that is
\* not an object (null, or a parse error) peerData.nickname throws inside the try.
handlePeerAnnouncement_KeepsLastSeen(ctx, message, fromPeerKey, now) ==
    LET peerData == decodeJSONPayload(message)
    IN  IF /\ MapHas(ctx.node.peers, fromPeerKey)
           /\ peerData # Null
           /\ "nickname" \in DOMAIN peerData
           /\ peerData.nickname # << >>
        THEN [ctx EXCEPT !.node.peers[fromPeerKey].nickname = Str(peerData.nickname)]
        ELSE ctx

handlePeerAnnouncement(ctx, message, fromPeerKey, now) ==
    LET peerData == decodeJSONPayload(message)
    IN  IF /\ MapHas(ctx.node.peers, fromPeerKey)
           /\ peerData # Null
           /\ "nickname" \in DOMAIN peerData
           /\ peerData.nickname # << >>
        THEN [ctx EXCEPT !.node.peers[fromPeerKey].nickname = Str(peerData.nickname),
                         !.node.peers[fromPeerKey].lastSeen = now]
        ELSE ctx

\* handleChatMessage (P2PNetworkManager.js:343-355): peer?.nickname || fromPeerKey
handleChatMessage(ctx, message, fromPeerKey) ==
    LET text == decodeTextPayload(message)
        known == /\ MapHas(ctx.node.peers, fromPeerKey)
                 /\ ctx.node.peers[fromPeerKey].nickname # Null
                 /\ ctx.node.peers[fromPeerKey].nickname # Str(<< >>)
        sender == IF known THEN ctx.node.peers[fromPeerKey].nickname ELSE fromPeerKey
    IN  Emit(ctx, [callback |-> "onMessage", sender |-> sender, text |-> Str(text),
                   isOwn |-> FALSE])

\* this.messageHandlers[message.msgType] (P2PNetworkManager.js:42-48, 276-279)
\* a lookup that falls back to the chat handler for a type it does not know
RunHandler_UnknownAsChat(ctx, message, fromPeerKey, now, rand) ==
    IF message.msgType = MessageType.PING
    THEN handlePing(ctx, message, fromPeerKey, now, rand)
    ELSE IF message.msgType = MessageType.PONG
    THEN handlePong(ctx, message, fromPeerKey, now)
    ELSE IF message.msgType = MessageType.PEER_DISCOVERY
    THEN handlePeerDiscovery(ctx, message, fromPeerKey)
    ELSE IF message.msgType = MessageType.PEER_ANNOUNCEMENT
    THEN handlePeerAnnouncement(ctx, message, fromPeerKey, now)
    ELSE handleChatMessage(ctx, message, fromPeerKey)

RunHandler(ctx, message, fromPeerKey, now, rand) ==
    IF message.msgType = MessageType.PING
    THEN handlePing(ctx, message, fromPeerKey, now, rand)
    ELSE IF message.msgType = MessageType.PONG
    THEN handlePong(ctx, message, fromPeerKey, now)
    ELSE IF message.msgType = MessageType.PEER_DISCOVERY
    THEN handlePeerDiscovery(ctx, message, fromPeerKey)
    ELSE IF message.msgType = MessageType.PEER_ANNOUNCEMENT
    THEN handlePeerAnnouncement(ctx, message, fromPeerKey, now)
    ELSE IF message.msgType = MessageType.CHAT_MESSAGE
    THEN handleChatMessage(ctx, message, fromPeerKey)
    ELSE ctx

\* the forwarding half of handleMessage (P2PNetworkManager.js:281-285)
ForwardIfTtl_NoDecrement(ctx, message, fromPeerKey) ==
    IF message.ttl > 0 THEN forwardMessage(ctx, message, fromPeerKey) ELSE ctx

ForwardIfTtl_AlsoAtZero(ctx, message, fromPeerKey) ==
    forwardMessage(ctx, [message EXCEPT !.ttl = IF @ > 0 THEN @ - 1 ELSE 0], fromPeerKey)

ForwardIfTtl_Unguarded(ctx, message, fromPeerKey) ==
    forwardMessage(ctx, [message EXCEPT !.ttl = @ - 1], fromPeerKey)

ForwardIfTtl(ctx, message, fromPeerKey) ==
    IF message.ttl > 0
    THEN forwardMessage(ctx, [message EXCEPT !.ttl = @ - 1], fromPeerKey)
    ELSE ctx

\* handleMessage (P2PNetworkManager.js:275-286).  The record appended to handled
\* holds the message as received, the peer it came from, the connection table when
\* the call began, the number of dedup checks made before it in the same event, and
\* the writes and callbacks the call made.
handleMessage(ctx, message, fromPeerKey, now, rand) ==
    LET after == ForwardIfTtl(RunHandler(ctx, message, fromPeerKey, now, rand),
                              message, fromPeerKey)
    IN  [after EXCEPT !.handled =
            Append(@, [message |-> message, fromPeerKey |-> fromPeerKey,
                       connections |-> ctx.node.connections,
                       afterCheck |-> Len(ctx.checks),
                       wrote |-> SubSeq(after.written, Len(ctx.written) + 1,
                                        Len(after.written)),
                       emitted |-> SubSeq(after.events, Len(ctx.events) + 1,
                                          Len(after.events))])]

\* the k-th value of Math.random() drawn within one event
DrawRand(rand, k) == (rand + k) % 65535

\* messageBuffer.length >= 4 + messageLength, for messageLength read off the wire
\* (up to 2^32-1) and a buffer far shorter than 2^30 bytes
HasFrame(messageBuffer, messageLength) ==
    /\ Hi(messageLength) < 16384
    /\ Len(messageBuffer) >= 4 + Hi(messageLength) * 65536 + Lo(messageLength)

\* the check and the dispatch of one extracted frame (P2PNetworkManager.js:233-236)
ProcessMessage_NoDedup(ctx, messageData, peerKey, now, rand) ==
    LET message == deserialize(messageData)
    IN  IF message = Null THEN ctx
        ELSE handleMessage(ctx, message, peerKey, now, DrawRand(rand, Len(ctx.handled)))

ProcessMessage(ctx, messageData, peerKey, now, rand) ==
    LET message == deserialize(messageData)
    IN  IF message = Null THEN ctx
        ELSE LET dup == isDuplicate(ctx.node.messageCache, message.msgId)
                 checked ==
                     [ctx EXCEPT
                        !.node.messageCache = dup.messageCache,
                        !.checks = Append(@, [msgId |-> message.msgId,
                                              result |-> dup.result,
                                              evicted |-> Elems(ctx.node.messageCache)
                                                            \ Elems(dup.messageCache)])]
             IN  IF dup.result THEN checked
                 ELSE handleMessage(checked, message, peerKey, now,
                                    DrawRand(rand, Len(ctx.handled)))

\* the while loop of the 'data' handler (P2PNetworkManager.js:223-241): returns the
\* context and the bytes left in messageBuffer
RECURSIVE ProcessBuffer_OneFramePerEvent(_, _, _, _, _)
ProcessBuffer_OneFramePerEvent(ctx, peerKey, messageBuffer, now, rand) ==
    IF Len(messageBuffer) >= 4 /\ HasFrame(messageBuffer, GetUint32BE(messageBuffer, 0))
    THEN LET n == 4 + Lo(GetUint32BE(messageBuffer, 0))
                    + 65536 * Hi(GetUint32BE(messageBuffer, 0))
         IN  [ctx |-> ProcessMessage([ctx EXCEPT !.extracted =
                                         Append(@, Slice(messageBuffer, 4, n))],
                                     Slice(messageBuffer, 4, n), peerKey, now, rand),
              messageBuffer |-> Slice(messageBuffer, n, Len(messageBuffer))]
    ELSE [ctx |-> ctx, messageBuffer |-> messageBuffer]

\* a frame that does not decode ends the loop
RECURSIVE ProcessBuffer_StopsAtBadFrame(_, _, _, _, _)
ProcessBuffer_StopsAtBadFrame(ctx, peerKey, messageBuffer, now, rand) ==
    IF Len(messageBuffer) >= 4 /\ HasFrame(messageBuffer, GetUint32BE(messageBuffer, 0))
    THEN LET n == 4 + Lo(GetUint32BE(messageBuffer, 0))
                    + 65536 * Hi(GetUint32BE(messageBuffer, 0))
             messageData == Slice(messageBuffer, 4, n)
             taken == [ctx EXCEPT !.extracted = Append(@, messageData)]
         IN  IF deserialize(messageData) = Null
             THEN [ctx |-> taken,
                   messageBuffer |-> Slice(messageBuffer, n, Len(messageBuffer))]
             ELSE ProcessBuffer_StopsAtBadFrame(
                      ProcessMessage(taken, messageData, peerKey, now, rand),
                      peerKey, Slice(messageBuffer, n, Len(messageBuffer)), now, rand)
    ELSE [ctx |-> ctx, messageBuffer |-> messageBuffer]

\* the next frame is looked for after the inner message's own length
RECURSIVE ProcessBuffer_InnerLength(_, _, _, _, _)
ProcessBuffer_InnerLength(ctx, peerKey, messageBuffer, now, rand) ==
    IF Len(messageBuffer) >= 4 /\ HasFrame(messageBuffer, GetUint32BE(messageBuffer, 0))
    THEN LET n == 4 + Lo(GetUint32BE(messageBuffer, 0))
                    + 65536 * Hi(GetUint32BE(messageBuffer, 0))
             messageData == Slice(messageBuffer, 4, n)
             next == IF Len(messageData) >= HEADER_SIZE
                     THEN 4 + HEADER_SIZE + GetUint16BE(messageData, 6)
                     ELSE n
             taken == [ctx EXCEPT !.extracted = Append(@, messageData)]
         IN  ProcessBuffer_InnerLength(
                 ProcessMessage(taken, messageData, peerKey, now, rand),
                 peerKey, Slice(messageBuffer, next, Len(messageBuffer)), now, rand)
    ELSE [ctx |-> ctx, messageBuffer |-> messageBuffer]

\* the frames of a chunk are dispatched last first
RECURSIVE ProcessBuffer_LastFrameFirst(_, _, _, _, _)
ProcessBuffer_LastFrameFirst(ctx, peerKey, messageBuffer, now, rand) ==
    IF Len(messageBuffer) >= 4 /\ HasFrame(messageBuffer, GetUint32BE(messageBuffer, 0))
    THEN LET n == 4 + Lo(GetUint32BE(messageBuffer, 0))
                    + 65536 * Hi(GetUint32BE(messageBuffer, 0))
             messageData == Slice(messageBuffer, 4, n)
             taken == [ctx EXCEPT !.extracted = Append(@, messageData)]
             rest == ProcessBuffer_LastFrameFirst(
                         taken, peerKey, Slice(messageBuffer, n, Len(messageBuffer)),
                         now, rand)
         IN  [ctx |-> ProcessMessage(rest.ctx, messageData, peerKey, now, rand),
              messageBuffer |-> rest.messageBuffer]
    ELSE [ctx |-> ctx, messageBuffer |-> messageBuffer]

RECURSIVE ProcessBuffer(_, _, _, _, _)
ProcessBuffer(ctx, peerKey, messageBuffer, now, rand) ==
    IF Len(messageBuffer) >= 4
    THEN LET messageLength == GetUint32BE(messageBuffer, 0)
         IN  IF HasFrame(messageBuffer, messageLength)
             THEN LET n == 4 + Hi(messageLength) * 65536 + Lo(messageLength)
                      messageData == Slice(messageBuffer, 4, n)
                      taken == [ctx EXCEPT !.extracted = Append(@, messageData)]
                  IN  ProcessBuffer(ProcessMessage(taken, messageData, peerKey, now, rand),
                                    peerKey, Slice(messageBuffer, n, Len(messageBuffer)),
                                    now, rand)
             ELSE [ctx |-> ctx, messageBuffer |-> messageBuffer]
    ELSE [ctx |-> ctx, messageBuffer |-> messageBuffer]

\* socket.on('data') (P2PNetworkManager.js:217-245) of a socket that
\* setupSocketHandlers was called on
OnData(ctx, socket, data, now, rand) ==
    LET done == ProcessBuffer(ctx, ctx.node.sockets[socket].peerKey,
                              ctx.node.sockets[socket].messageBuffer \o data, now, rand)
    IN  [done.ctx EXCEPT !.node.sockets[socket].messageBuffer = done.messageBuffer]

\* setupSocketHandlers (P2PNetworkManager.js:214-216): the closure of the handlers
setupSocketHandlers(ctx, socket, peerKey) ==
    [ctx EXCEPT !.node.sockets =
        MapSet(@, socket, [peerKey |-> peerKey, messageBuffer |-> << >>,
                           destroyed |-> FALSE, failing |-> FALSE])]

\* handleIncomingConnection (P2PNetworkManager.js:189-209)
handleIncomingConnection(ctx, socket, peerAddress, peerPort, now) ==
    LET peerKey == PeerKey(peerAddress, peerPort)
        peer == PeerInfo(peerAddress, peerPort, now)
        added == [ctx EXCEPT !.node.connections = MapSet(@, peerKey, socket),
                             !.node.peers = MapSet(@, peerKey, peer)]
    IN  Emit(setupSocketHandlers(added, socket, peerKey),
             [callback |-> "onPeerJoined", peer |-> peer])

\* connectToPeer up to TcpSocket.createConnection (P2PNetworkManager.js:115-128):
\* resolves at once for a key in the connection table, else starts a dial on socket
connectToPeer_AlwaysDials(ctx, socket, address, port) ==
    [ctx EXCEPT !.node.dialing = MapSet(@, socket, PeerKey(address, port))]

connectToPeer(ctx, socket, address, port) ==
    IF MapHas(ctx.node.connections, PeerKey(address, port))
    THEN Emit(ctx, [callback |-> "resolve", peerKey |-> PeerKey(address, port)])
    ELSE [ctx EXCEPT !.node.dialing = MapSet(@, socket, PeerKey(address, port))]

\* socket.on('connect') of a dialing socket (P2PNetworkManager.js:130-151)
OnConnect_JoinedFirst(ctx, socket, now, rand) ==
    LET peerKey == ctx.node.dialing[socket]
        peer == PeerInfo(peerKey.address, peerKey.port, now)
        added == [ctx EXCEPT !.node.connections = MapSet(@, peerKey, socket),
                             !.node.peers = MapSet(@, peerKey, peer),
                             !.node.dialing = MapDelete(@, socket)]
        joined == Emit(setupSocketHandlers(added, socket, peerKey),
                       [callback |-> "onPeerJoined", peer |-> peer])
    IN  Emit(sendPeerAnnouncement(joined, socket, now, rand),
             [callback |-> "resolve", peerKey |-> peerKey])

OnConnect(ctx, socket, now, rand) ==
    LET peerKey == ctx.node.dialing[socket]
        peer == PeerInfo(peerKey.address, peerKey.port, now)
        added == [ctx EXCEPT !.node.connections = MapSet(@, peerKey, socket),
                             !.node.peers = MapSet(@, peerKey, peer),
                             !.node.dialing = MapDelete(@, socket)]
        announced == sendPeerAnnouncement(setupSocketHandlers(added, socket, peerKey),
                                          socket, now, rand)
    IN  Emit(Emit(announced, [callback |-> "onPeerJoined", peer |-> peer]),
             [callback |-> "resolve", peerKey |-> peerKey])

\* socket.on('error') of a dialing socket (P2PNetworkManager.js:153-156)
OnDialError_Disconnects(ctx, socket) ==
    Emit([ctx EXCEPT !.node.dialing = MapDelete(@, socket),
                     !.node.connections = MapDelete(@, ctx.node.dialing[socket]),
                     !.node.peers = MapDelete(@, ctx.node.dialing[socket])],
         [callback |-> "reject", peerKey |-> ctx.node.dialing[socket]])

OnDialError(ctx, socket) ==
    Emit([ctx EXCEPT !.node.dialing = MapDelete(@, socket)],
         [callback |-> "reject", peerKey |-> ctx.node.dialing[socket]])

\* the 'timeout' event of a dialing socket, 10000 ms after createConnection
\* (P2PNetworkManager.js:124-128): connectToPeer registers no listener for it, so
\* nothing runs, the socket is left as it is and the promise stays pending
OnDialTimeout(ctx, socket) == ctx

\* handlePeerDisconnect (P2PNetworkManager.js:261-270)
handlePeerDisconnect_AlwaysFires(ctx, peerKey) ==
    Emit([ctx EXCEPT !.node.connections = MapDelete(@, peerKey),
                     !.node.peers = MapDelete(@, peerKey)],
         [callback |-> "onPeerLeft",
          peer |-> IF MapHas(ctx.node.peers, peerKey) THEN ctx.node.peers[peerKey]
                   ELSE Null])

handlePeerDisconnect(ctx, peerKey) ==
    LET removed == [ctx EXCEPT !.node.connections = MapDelete(@, peerKey),
                               !.node.peers = MapDelete(@, peerKey)]
    IN  IF MapHas(ctx.node.peers, peerKey)
        THEN Emit(removed, [callback |-> "onPeerLeft", peer |-> ctx.node.peers[peerKey]])
        ELSE removed

\* the staleness threshold of cleanup (P2PNetworkManager.js:428), in milliseconds
staleThreshold == 5 * 60 * 1000

\* stalePeers.forEach(handlePeerDisconnect) (P2PNetworkManager.js:437-439); the keys
\* are visited by port, then address
RECURSIVE DisconnectEach(_, _)
DisconnectEach(ctx, keys) ==
    IF keys = {} THEN ctx
    ELSE LET first == CHOOSE k \in keys :
                          \A o \in keys : \/ k.port < o.port
                                          \/ k.port = o.port /\ k.address <= o.address
         IN  DisconnectEach(handlePeerDisconnect(ctx, first), keys \ {first})

\* cleanup, the timer callback of startCleanupTask (P2PNetworkManager.js:424-443);
\* rearm tells whether it scheduled itself again
cleanup(ctx, now) ==
    IF ~ctx.node.isRunning THEN [ctx |-> ctx, rearm |-> FALSE]
    ELSE [ctx |-> DisconnectEach(ctx, {k \in DOMAIN ctx.node.peers :
                                          now - ctx.node.peers[k].lastSeen > staleThreshold}),
          rearm |-> TRUE]

\* socket.on('close') and socket.on('error') (P2PNetworkManager.js:247-255)
OnClose(ctx, socket) == handlePeerDisconnect(ctx, ctx.node.sockets[socket].peerKey)
OnError(ctx, socket) == handlePeerDisconnect(ctx, ctx.node.sockets[socket].peerKey)

\* sendMessage (P2PNetworkManager.js:163-171); a throw of the Message constructor
\* leaves the method before anything is written
sendMessage(ctx, text, ttl, now, rand) ==
    LET message == createChatMessage(text, ttl, now, rand)
    IN  IF ~IsMessage(message) THEN Emit(ctx, [callback |-> "throw", error |-> message])
        ELSE Emit(broadcastMessage(ctx, message),
                  [callback |-> "onMessage", sender |-> ctx.node.nickname,
                   text |-> Str(text), isOwn |-> TRUE])

(***************************************************************************)
(* Sample values the specifications draw their inputs from.                *)
(***************************************************************************)
SeqsUpTo(S, n) == UNION {[1..k -> S] : k \in 0..n}

ByteSamples == {0, 104, 255}
CharSamples == {104, 233, 8364}
LongPayload == [i \in 1..LongPayloadLen |-> i % 256]
PayloadSamples == SeqsUpTo(ByteSamples, MaxPayloadLen) \cup {LongPayload}
TextSamples == SeqsUpTo(CharSamples, MaxTextLen)
TypeSamples == MessageTypeCodes \cup {0}
TtlSamples == (0 - 1)..(MAX_TTL + 1)
IdSamples ==
    {Wide(h, l) : h \in {0 - 32768, 0 - 1, 0, 4660, 32767, 32768, 43707, 65535},
                  l \in {0, 22136, 52445, 65535}}
\* Date.now() & 0xFFFF and Math.floor(Math.random() * 0xFFFF)
NowSamples == {0, 1, 32767, 32768, 65535}
RandSamples == {0, 255, 65534}
NickSamples == {<< 65 >>, << 66, 233 >>}
\* a payload one byte longer than the largest allowed, and a text that encodes to it
OversizePayload == [i \in 1..(MAX_PAYLOAD_SIZE + 1) |-> 0]
OversizeText == [i \in 1..(MAX_PAYLOAD_SIZE + 1) |-> 104]
\* byte sequences handed to deserialize: a header with any of a few types, ttls and
\* payloadLength fields followed by 0 to 3 bytes or by 255 or 256 bytes, and every
\* proper prefix of a header
WireHeaders ==
    {<< t, ttl, 0, 0, 0, 9, lh, ll >> :
        t \in {0, 5, 255}, ttl \in {0, MAX_TTL, MAX_TTL + 1, 255}, lh \in {0, 1}, ll \in {0, 1, 2}}
WireSamples ==
    {h \o [i \in 1..k |-> 104] : h \in WireHeaders, k \in {0, 1, 2, 3, 255, 256}}
        \cup {SubSeq(<< 5, 1, 0, 0, 0, 9, 0, 0 >>, 1, k) : k \in 0..(HEADER_SIZE - 1)}

VARIABLES
    cpc,      \* codec run: "idle", "built", "threw", "serialized", "deserialized"
    cmsg,     \* the Message under test (Null before it is built)
    cby,      \* what built it: "new" or the factory's name
    cwire,    \* serialize(cmsg)
    cout      \* deserialize(cwire)

codecVars == << cpc, cmsg, cby, cwire, cout >>

VARIABLES
    dcache,   \* protocol.messageCache
    dseen,    \* every id checked so far
    dorder,   \* the distinct ids in the order of their first check
    dever,    \* TRUE once the cache has exceeded CacheLimit (an eviction happened)
    dcalls,   \* number of isDuplicate calls so far
    dlast     \* the last call: its id, its result, and dseen/dever/dcache before it

dedupVars == << dcache, dseen, dorder, dever, dcalls, dlast >>

VARIABLES
    fnode,       \* the node
    fsent,       \* the messageData of the frames put on the stream, in order
    fpos,        \* bytes of the stream delivered so far
    fextracted,  \* messageData of every frame the handler has extracted, in order
    fchunk       \* size of the last chunk delivered

framerVars == << fnode, fsent, fpos, fextracted, fchunk >>

VARIABLES
    nnode,    \* the node
    nopen,    \* the sockets of established connections the other end has not closed
    nsock,    \* number of sockets created so far (the next socket is nsock + 1)
    nfresh,   \* number of distinct message ids that have arrived so far
    nhist,    \* per message id, since it last entered messageCache: the handler runs,
              \* the onMessage callbacks, the sockets it arrived on, the message handled
    nlast     \* the last event: its name, its socket, the node before it, and what the
              \* handler wrote, called back, handled and checked

nodeVars == << nnode, nopen, nsock, nfresh, nhist, nlast >>

VARIABLES
    mnodes,      \* the nodes of the mesh
    mchan,       \* per socket, the frames written at its far end and not yet arrived
    mstage,      \* per link: "none", "dialing", "connected", "accepted" or "up"
    msent,       \* the node that sent the chat message, and the message (Null before)
    mdelivered,  \* the nodes whose onMessage has fired for it with isOwn false
    mevict,      \* TRUE once some node's messageCache has evicted
    mseq,        \* per node, the number of messages it has originated
    mhops,       \* the most relays any copy of the chat message has gone through
    mtick        \* parity of the number of 'data' events so far

meshVars == << mnodes, mchan, mstage, msent, mdelivered, mevict, mseq, mhops, mtick >>

VARIABLES
    lnow,     \* the clock, in periods of the cleanup timer
    ltimers,  \* the ticks at which the armed cleanup timers are due
    lpeer     \* per peer key since it was last registered: peer-left callbacks, and
              \* the tick of the last frame that arrived from it

lifeVars == << lnow, ltimers, lpeer >>

VARIABLES
    pdialer,  \* which node of the pair dials
    plog      \* per node of the pair: the callbacks fired and the frames written

pairVars == << pdialer, plog >>

vars == << codecVars, dedupVars, framerVars, nodeVars, meshVars, lifeVars, pairVars >>

(***************************************************************************)
(* The codec specification: build a Message with the constructor or a      *)
(* factory, serialize it, deserialize the bytes (the demo's tests 2 and 4, *)
(* unnamed/part_002:46-59 and 76-93).                                      *)
(***************************************************************************)
CodecBuilt(made, by) ==
    /\ cmsg' = made
    /\ cby' = by
    /\ cpc' = IF IsMessage(made) THEN "built" ELSE "threw"
    /\ UNCHANGED << cwire, cout >>
    /\ UNCHANGED << dedupVars, framerVars, nodeVars, meshVars, lifeVars, pairVars >>

CodecNew ==
    /\ cpc = "idle"
    /\ \E t \in TypeSamples, ttl \in TtlSamples, id \in IdSamples,
          p \in PayloadSamples \cup {OversizePayload} :
           CodecBuilt(Message(t, ttl, id, p), "new")

CodecCreateChat ==
    /\ cpc = "idle"
    /\ \E text \in TextSamples, ttl \in {0, 3, MAX_TTL, MAX_TTL + 1},
          now \in NowSamples, rand \in RandSamples :
           CodecBuilt(createChatMessage(text, ttl, now, rand), "createChatMessage")

CodecCreatePing ==
    /\ cpc = "idle"
    /\ \E now \in NowSamples, rand \in RandSamples :
           CodecBuilt(createPing(now, rand), "createPing")

CodecCreatePeerDiscovery ==
    /\ cpc = "idle"
    /\ \E nick \in NickSamples, ts \in {0, 1203}, now \in NowSamples, rand \in RandSamples :
           CodecBuilt(createPeerDiscovery([nickname |-> nick, timestamp |-> ts], now, rand),
                      "createPeerDiscovery")

CodecCreatePeerAnnouncement ==
    /\ cpc = "idle"
    /\ \E nick \in NickSamples, ts \in {0, 1203}, now \in NowSamples, rand \in RandSamples :
           CodecBuilt(createPeerAnnouncement([nickname |-> nick, timestamp |-> ts], now, rand),
                      "createPeerAnnouncement")

CodecSerialize ==
    /\ cpc = "built"
    /\ cwire' = serialize(cmsg)
    /\ cpc' = "serialized"
    /\ UNCHANGED << cmsg, cby, cout >>
    /\ UNCHANGED << dedupVars, framerVars, nodeVars, meshVars, lifeVars, pairVars >>

CodecDeserialize ==
    /\ cpc = "serialized"
    /\ cout' = deserialize(cwire)
    /\ cpc' = "deserialized"
    /\ UNCHANGED << cmsg, cby, cwire >>
    /\ UNCHANGED << dedupVars, framerVars, nodeVars, meshVars, lifeVars, pairVars >>

\* deserialize called on bytes that no serialize produced
CodecDecode ==
    /\ cpc = "idle"
    /\ \E data \in WireSamples :
           /\ cwire' = data
           /\ cout' = deserialize(data)
    /\ cby' = "bytes"
    /\ cpc' = "decoded"
    /\ UNCHANGED cmsg
    /\ UNCHANGED << dedupVars, framerVars, nodeVars, meshVars, lifeVars, pairVars >>

\* a started node with two accepted connections
CodecNode ==
    handleIncomingConnection(
        NewContext(handleIncomingConnection(
            NewContext(start(NewContext(P2PNetworkManager(8888, Str(<< 65 >>)))).node),
            1, 2, 50001, 0).node),
        2, 3, 50002, 0).node

\* sendMessage(text, ttl) of that node, which builds its message with
\* createChatMessage; cout records the call
CodecSendMessage ==
    /\ cpc = "idle"
    /\ \E text \in {<< 104, 105 >>, OversizeText}, ttl \in {0 - 1, 0, 3, MAX_TTL, MAX_TTL + 1} :
           LET ctx == sendMessage(NewContext(CodecNode), text, ttl, 0, 0)
           IN  cout' = [kind |-> "sent", ttl |-> ttl, size |-> Len(TextEncode(text)),
                        written |-> ctx.written, events |-> ctx.events,
                        node |-> ctx.node]
    /\ cby' = "sendMessage"
    /\ cpc' = "sent"
    /\ UNCHANGED << cmsg, cwire >>
    /\ UNCHANGED << dedupVars, framerVars, nodeVars, meshVars, lifeVars, pairVars >>

CodecNext ==
    \/ CodecDecode
    \/ CodecSendMessage
    \/ CodecNew
    \/ CodecCreateChat
    \/ CodecCreatePing
    \/ CodecCreatePeerDiscovery
    \/ CodecCreatePeerAnnouncement
    \/ CodecSerialize
    \/ CodecDeserialize

(***************************************************************************)
(* Claims about the codec.                                                 *)
(***************************************************************************)
IsByteSeq(b) == \A i \in 1..Len(b) : b[i] \in 0..255

\* a valid Message: one of the 8 type codes, ttl 0..7, an id in 0 .. 2^32-1,
\* at most 65535 payload bytes
ValidMessage(m) ==
    /\ IsMessage(m)
    /\ m.msgType \in MessageTypeCodes
    /\ m.ttl \in 0..MAX_TTL
    /\ Hi(m.msgId) \in 0..65535
    /\ Lo(m.msgId) \in 0..65535
    /\ Len(m.payload) <= MAX_PAYLOAD_SIZE
    /\ IsByteSeq(m.payload)

SameMessage(a, b) ==
    /\ IsMessage(a)
    /\ IsMessage(b)
    /\ a.msgType = b.msgType
    /\ a.ttl = b.ttl
    /\ a.msgId = b.msgId
    /\ a.payload = b.payload

\* C5: for every valid Message m (type one of the 8 codes, ttl in 0..7, id in
\* 0 .. 2^32-1, payload of 0..65535 bytes), deserialize(serialize(m)) is a Message
\* with the same type, ttl, id and payload bytes as m.
C5_RoundTrip ==
    (cpc = "deserialized" /\ ValidMessage(cmsg)) => SameMessage(cout, cmsg)

\* C5 witness: a valid message with an id of 2^31 or more and a payload longer
\* than 255 bytes has made the round trip.
C5_Witness ==
    /\ cpc = "deserialized"
    /\ ValidMessage(cmsg)
    /\ Hi(cmsg.msgId) >= 32768
    /\ Len(cmsg.payload) > 255
    /\ cout.payload = cmsg.payload

\* C22: the Message constructor throws for an integer ttl outside 0..7 and for a
\* payload longer than 65535 bytes (so what it builds has neither); sendMessage with
\* such a ttl or with a text that encodes to such a payload throws, writes no frame
\* to any peer and fires no onMessage.
C22_ConstructionValidated ==
    /\ cpc \in {"built", "serialized", "deserialized"} =>
           /\ cmsg.ttl \in 0..MAX_TTL
           /\ Len(cmsg.payload) <= MAX_PAYLOAD_SIZE
    /\ cpc = "threw" => cmsg.kind = "Error"
    /\ (cpc = "sent" /\ (cout.ttl \notin 0..MAX_TTL \/ cout.size > MAX_PAYLOAD_SIZE)) =>
           /\ Len(cout.events) = 1
           /\ cout.events[1].callback = "throw"
           /\ cout.written = << >>
           /\ cout.node = CodecNode

\* C22 witness: sendMessage with a ttl of 0..7 and a text that encodes to 65536
\* bytes has thrown the payload error.
C22_Witness ==
    /\ cpc = "sent"
    /\ cout.ttl = 3
    /\ cout.size = MAX_PAYLOAD_SIZE + 1
    /\ cout.events[1].callback = "throw"
    /\ cout.events[1].error.message = "Payload too large (max 65535 bytes)"

\* C23: for every byte sequence deserialize returns null when the input is shorter
\* than 8 bytes, when it is shorter than 8 + payloadLength (read big-endian at
\* offset 6) or when the ttl byte is greater than 7; otherwise it returns the
\* Message the bytes spell; it never throws.
C23_DecodeNeverRaises ==
    cpc = "decoded" =>
        IF \/ Len(cwire) < 8
           \/ Len(cwire) < 8 + cwire[7] * 256 + cwire[8]
           \/ cwire[2] > 7
        THEN cout = Null
        ELSE /\ IsMessage(cout)
             /\ cout.msgType = cwire[1]
             /\ cout.ttl = cwire[2]
             /\ cout.msgId = Wide(cwire[3] * 256 + cwire[4], cwire[5] * 256 + cwire[6])
             /\ cout.payload = SubSeq(cwire, 9, 8 + cwire[7] * 256 + cwire[8])

\* C23 witness: bytes that are complete for their payloadLength and carry a ttl
\* byte of 8 have been decoded to null.
C23_Witness ==
    /\ cpc = "decoded"
    /\ Len(cwire) >= 8
    /\ Len(cwire) >= 8 + cwire[7] * 256 + cwire[8]
    /\ cwire[2] = MAX_TTL + 1
    /\ cout = Null

\* a 32-bit value: in -2^31 .. 2^32-1 (the signed and the unsigned 32-bit ranges)
Is32Bit(w) == Hi(w) \in (0 - 32768)..65535 /\ Lo(w) \in 0..65535

\* C6: for every message built by createChatMessage, createPing, createPeerDiscovery
\* or createPeerAnnouncement the id is a 32-bit value and
\* deserialize(serialize(m)).msgId equals m.msgId.
C6_GeneratedIdSurvives ==
    (cpc = "deserialized" /\ cby # "new") =>
        /\ Is32Bit(cmsg.msgId)
        /\ IsMessage(cout)
        /\ cout.msgId = cmsg.msgId

\* C7: for every valid Message serialize returns exactly 8 + payloadLength bytes laid
\* out as [type:1][ttl:1][id:4 big-endian][payloadLength:2 big-endian][payload].
C7_WireLayout ==
    (cpc \in {"serialized", "deserialized"} /\ ValidMessage(cmsg)) =>
        /\ Len(cwire) = 8 + Len(cmsg.payload)
        /\ IsByteSeq(cwire)
        /\ cwire[1] = cmsg.msgType
        /\ cwire[2] = cmsg.ttl
        /\ cwire[3] * 256 + cwire[4] = Hi(cmsg.msgId)
        /\ cwire[5] * 256 + cwire[6] = Lo(cmsg.msgId)
        /\ cwire[7] * 256 + cwire[8] = Len(cmsg.payload)
        /\ \A i \in 1..Len(cmsg.payload) : cwire[8 + i] = cmsg.payload[i]

\* C7 witness: the demo's test message (CHAT_MESSAGE, ttl 2, id 0x12345678) with a
\* payload longer than 255 bytes has been serialized.
C7_Witness ==
    /\ cpc = "serialized"
    /\ cmsg.msgType = MessageType.CHAT_MESSAGE
    /\ cmsg.ttl = 2
    /\ cmsg.msgId = Wide(4660, 22136)
    /\ Len(cmsg.payload) > 255
    /\ SubSeq(cwire, 1, 8) = << 5, 2, 18, 52, 86, 120, Len(cmsg.payload) \div 256,
                                Len(cmsg.payload) % 256 >>

(***************************************************************************)
(* The dedup specification: one P2PProtocol instance, isDuplicate called   *)
(* with ids that were checked before or with the next id never checked     *)
(* (ids are compared for equality only, so fresh ids are taken in a fixed  *)
(* order).  dseen, dorder, dever and dlast record the history of calls.    *)
(***************************************************************************)
DedupId(i) == Wide(0, 12344 + i)
DedupIds == {DedupId(i) : i \in 1..(CacheLimit + 2)}

DedupCall(id) ==
    LET r == isDuplicate(dcache, id)
    IN  /\ dcache' = r.messageCache
        /\ dseen' = dseen \cup {id}
        /\ dorder' = IF id \in dseen THEN dorder ELSE Append(dorder, id)
        /\ dever' = (dever \/ (id \notin Elems(dcache) /\ Len(dcache) + 1 > CacheLimit))
        /\ dcalls' = dcalls + 1
        /\ dlast' = [kind |-> "call", id |-> id, result |-> r.result,
                     seenBefore |-> id \in dseen, everBefore |-> dever,
                     sizeBefore |-> Len(dcache)]
        /\ UNCHANGED << codecVars, framerVars, nodeVars, meshVars, lifeVars, pairVars >>

\* check an id for the first time
DedupCheckFresh ==
    /\ dcalls < MaxChecks
    /\ Len(dorder) < CacheLimit + 2
    /\ DedupCall(DedupId(Len(dorder) + 1))

\* check an id that was checked before
DedupCheckAgain ==
    /\ dcalls < MaxChecks
    /\ \E id \in dseen : DedupCall(id)

DedupNext ==
    \/ DedupCheckFresh
    \/ DedupCheckAgain

\* C8: on a cache that has not yet exceeded its capacity, isDuplicate(id) returns
\* false the first time a fresh id is checked and true on every later check of the
\* same id.
C8_DedupIdempotence ==
    (dlast.kind = "call" /\ ~dlast.everBefore) => (dlast.result = dlast.seenBefore)

\* C8 witness: with the cache full to its capacity and never exceeded, an id checked
\* before is checked again and reported a duplicate.
C8_Witness ==
    /\ dlast.kind = "call"
    /\ ~dever
    /\ dlast.sizeBefore = CacheLimit
    /\ dlast.seenBefore
    /\ dlast.result

\* the first eviction has just happened: the call that made the cache exceed its
\* capacity for the first time has returned
FirstEvictionNow == dlast.kind = "call" /\ dever /\ ~dlast.everBefore

\* C9: after capacity+1 distinct ids have been checked in order, the earliest-inserted
\* half of them (the first (capacity+1) \div 2) are forgotten: checking one again
\* returns false; the rest, including the id whose insertion triggered the eviction,
\* are still remembered: checking one returns true.
C9_Eviction ==
    FirstEvictionNow =>
        LET n == Len(dorder)
        IN  /\ n = CacheLimit + 1
            /\ dorder[n] = dlast.id
            /\ \A i \in 1..n :
                   isDuplicate(dcache, dorder[i]).result = (i > n \div 2)
            /\ Len(dcache) = n - (n \div 2)

\* C9 witness: the first eviction has happened and at least one id was forgotten.
C9_Witness ==
    /\ FirstEvictionNow
    /\ Len(dorder) = CacheLimit + 1
    /\ ~isDuplicate(dcache, dorder[1]).result
    /\ isDuplicate(dcache, dlast.id).result

\* C27: after every isDuplicate call returns the cache holds at most its capacity
\* of ids (10,000 in the code, CacheLimit here), for any sequence of ids checked.
C27_CacheBound ==
    /\ Len(dcache) <= CacheLimit
    /\ Cardinality(Elems(dcache)) = Len(dcache)

\* C27 witness: a call on a cache full to its capacity has inserted a new id and
\* returned, after an earlier eviction.
C27_Witness ==
    /\ dlast.kind = "call"
    /\ dlast.sizeBefore = CacheLimit
    /\ ~dlast.result
    /\ dlast.everBefore
    /\ isDuplicate(dcache, dlast.id).result

(***************************************************************************)
(* The framer specification: one node with one accepted connection; a      *)
(* stream of outer frames arrives on it cut into chunks of any size.       *)
(* Every chunk is one 'data' event, handled by the whole handler.          *)
(***************************************************************************)
FramerSocket == 1
FramerPeer == PeerKey(2, 50001)

\* inner messages of the sample frames: a PING (a 12-byte outer frame), a chat
\* message, three bytes that are no message, no bytes at all, and a header whose
\* payloadLength exceeds the bytes that follow
FramerFrames ==
    { serialize(Message(MessageType.PING, 1, Wide(0, 7), << >>)),
      serialize(Message(MessageType.CHAT_MESSAGE, 2, Wide(43707, 52445), << 104 >>)),
      << 1, 2, 3 >>,
      << >>,
      << 5, 1, 0, 0, 0, 9, 0, 5, 104 >> }

RECURSIVE StreamOf(_)
StreamOf(frames) ==
    IF frames = << >> THEN << >>
    ELSE OuterFrame(Head(frames)) \o StreamOf(Tail(frames))

FramerData ==
    \E size \in 1..(Len(StreamOf(fsent)) - fpos) :
        LET data == SubSeq(StreamOf(fsent), fpos + 1, fpos + size)
            ctx == OnData(NewContext(fnode), FramerSocket, data, 0, 0)
        IN  /\ fnode' = ctx.node
            /\ fextracted' = fextracted \o ctx.extracted
            /\ fpos' = fpos + size
            /\ fchunk' = size
            /\ UNCHANGED fsent
            /\ UNCHANGED << codecVars, dedupVars, nodeVars, meshVars, lifeVars, pairVars >>

FramerNext == FramerData

\* the number of frames of the list that lie wholly within its first nbytes bytes
RECURSIVE WholeFrames(_, _)
WholeFrames(frames, nbytes) ==
    IF frames = << >> \/ nbytes < 4 + Len(Head(frames)) THEN 0
    ELSE 1 + WholeFrames(Tail(frames), nbytes - (4 + Len(Head(frames))))

\* C10: for any sequence of outer frames and any way of cutting the byte stream into
\* data-arrival chunks, the framer has extracted exactly the frames that have wholly
\* arrived, each once and in order, and its buffer holds exactly the bytes that
\* arrived after them: an incomplete frame.
C10_Framing ==
    LET k == WholeFrames(fsent, fpos)
        buffer == fnode.sockets[FramerSocket].messageBuffer
    IN  /\ fextracted = SubSeq(fsent, 1, k)
        /\ buffer = SubSeq(StreamOf(fsent), Len(StreamOf(SubSeq(fsent, 1, k))) + 1, fpos)
        /\ (k = Len(fsent) => buffer = << >>)
        /\ (k < Len(fsent) => Len(buffer) < 4 + Len(fsent[k + 1]))

\* C10 witness: a 12-byte frame arrived split in two chunks, the second chunk also
\* carrying the whole next frame, and both frames have been extracted.
C10_Witness ==
    /\ Len(fsent) = 2
    /\ Len(fsent[1]) = 8
    /\ fpos = Len(StreamOf(fsent))
    /\ fchunk > 4 + Len(fsent[2])
    /\ fchunk < fpos
    /\ fextracted = fsent

(***************************************************************************)
(* The node specification: one started node in an open environment.        *)
(* Peers connect to it, it dials peers, established connections close,     *)
(* whole frames arrive on them, and the application sends chat messages.   *)
(* Every action is one event handler or one public method, run to its end. *)
(***************************************************************************)
MaxSockets == 3
MaxNodeIds == 2
MaxIds == CacheLimit + 1

\* Date.now() and Math.random() as seen by the node's handlers
NodeNow == 0
NodeRand == 0
\* the addresses of the other hosts, and the port they listen on
NodeAddresses == {2, 3}
NodeListenPort == 8888
\* the remote port of the connection accepted on a socket
EphemeralPort(socket) == 50000 + socket

\* message ids carried by arriving frames: 0xAABBCCDD and the ones after it
NodeId(i) == Wide(43707, 52444 + i)
NodeIds == {NodeId(i) : i \in 1..MaxIds}

\* type, ttl and payload of the arriving messages
NodeBodies ==
    { [msgType |-> MessageType.CHAT_MESSAGE, ttl |-> 0, payload |-> << 104 >>],
      [msgType |-> MessageType.CHAT_MESSAGE, ttl |-> 2, payload |-> << 104 >>],
      [msgType |-> MessageType.PING, ttl |-> 1, payload |-> << >>],
      [msgType |-> MessageType.PONG, ttl |-> 1, payload |-> << >>],
      [msgType |-> MessageType.PEER_ANNOUNCEMENT, ttl |-> 1,
       payload |-> TextEncode(JSONStringify([nickname |-> << 66 >>, timestamp |-> 0]))],
      [msgType |-> 0, ttl |-> MAX_TTL, payload |-> << 255 >>] }

\* the node after an event, and the record of the event
NodeStep(ctx, op, socket) ==
    /\ nnode' = ctx.node
    /\ nlast' = [op |-> op, socket |-> socket, before |-> nnode,
                 written |-> ctx.written, events |-> ctx.events,
                 handled |-> ctx.handled, checks |-> ctx.checks]
    /\ UNCHANGED << codecVars, dedupVars, framerVars, meshVars, lifeVars, pairVars >>

\* the server's connection callback (P2PNetworkManager.js:60-62)
NodeAccept ==
    /\ nsock < MaxSockets
    /\ nnode.server # Null
    /\ \E address \in NodeAddresses :
           NodeStep(handleIncomingConnection(NewContext(nnode), nsock + 1, address,
                                             EphemeralPort(nsock + 1), NodeNow),
                    "accept", nsock + 1)
    /\ nsock' = nsock + 1
    /\ nopen' = nopen \cup {nsock + 1}
    /\ UNCHANGED << nfresh, nhist >>

\* connectToPeer(address, port), up to the dial being under way
NodeDial ==
    /\ nsock < MaxSockets
    /\ \E address \in NodeAddresses :
           LET ctx == connectToPeer(NewContext(nnode), nsock + 1, address, NodeListenPort)
           IN  /\ NodeStep(ctx, "connectToPeer", nsock + 1)
               /\ nsock' = IF (nsock + 1) \in DOMAIN ctx.node.dialing
                           THEN nsock + 1 ELSE nsock
    /\ UNCHANGED << nopen, nfresh, nhist >>

\* the 'connect' event of a dialing socket
NodeConnect ==
    \E socket \in DOMAIN nnode.dialing :
        /\ NodeStep(OnConnect(NewContext(nnode), socket, NodeNow, NodeRand),
                    "connect", socket)
        /\ nopen' = nopen \cup {socket}
        /\ UNCHANGED << nsock, nfresh, nhist >>

\* the 'error' event of a dialing socket
NodeDialError ==
    \E socket \in DOMAIN nnode.dialing :
        /\ NodeStep(OnDialError(NewContext(nnode), socket), "dialError", socket)
        /\ UNCHANGED << nopen, nsock, nfresh, nhist >>

\* the 'close' event of an established connection
NodeClose ==
    \E socket \in nopen :
        /\ NodeStep(OnClose(NewContext(nnode), socket), "close", socket)
        /\ nopen' = nopen \ {socket}
        /\ UNCHANGED << nsock, nfresh, nhist >>

\* a 'data' event carrying one whole frame
NodeData ==
    \E socket \in nopen, body \in NodeBodies, i \in 1..MaxNodeIds :
        /\ NodeStep(OnData(NewContext(nnode), socket,
                           OuterFrame(serialize(Message(body.msgType, body.ttl, NodeId(i),
                                                        body.payload))),
                           NodeNow, NodeRand),
                    "data", socket)
        /\ UNCHANGED << nopen, nsock, nfresh, nhist >>

\* a 'data' event carrying bytes that are no message
NodeGarbage ==
    \E socket \in nopen :
        /\ NodeStep(OnData(NewContext(nnode), socket, OuterFrame(<< 1, 2, 3 >>),
                           NodeNow, NodeRand),
                    "data", socket)
        /\ UNCHANGED << nopen, nsock, nfresh, nhist >>

\* the application calls sendMessage(text, ttl)
NodeSend ==
    \E ttl \in {0, 3, MAX_TTL + 1} :
        /\ NodeStep(sendMessage(NewContext(nnode), << 104, 105 >>, ttl, NodeNow, NodeRand),
                    "sendMessage", 0)
        /\ UNCHANGED << nopen, nsock, nfresh, nhist >>

NodeNext ==
    \/ NodeAccept
    \/ NodeDial
    \/ NodeConnect
    \/ NodeDialError
    \/ NodeClose
    \/ NodeData
    \/ NodeGarbage
    \/ NodeSend

IsRelay(w) == w.via = "forwardMessage"

\* C1: when the node handles a received, non-duplicate message from peer P, it writes
\* it to no connection if its ttl is 0; if its ttl is k > 0 it writes it exactly once
\* to every connection in its connection table except P's, with ttl k-1 and with
\* type, id and payload unchanged, and never back to P.
C1_TtlForwarding ==
    nlast.op = "data" =>
        \A i \in 1..Len(nlast.handled) :
            LET h == nlast.handled[i]
                relays == SelectSeq(h.wrote, IsRelay)
                others == (DOMAIN h.connections) \ {h.fromPeerKey}
                relayed == [h.message EXCEPT !.ttl = @ - 1]
            IN  /\ h.message.ttl = 0 => relays = << >>
                /\ h.message.ttl > 0 =>
                      /\ \A k \in others :
                             Cardinality({j \in 1..Len(relays) :
                                             relays[j].socket = h.connections[k]}) = 1
                      /\ \A j \in 1..Len(relays) :
                             /\ \E k \in others : relays[j].socket = h.connections[k]
                             /\ relays[j].data = OuterFrame(serialize(relayed))
                             /\ deserialize(Slice(relays[j].data, 4, Len(relays[j].data)))
                                    = Message(h.message.msgType, h.message.ttl - 1,
                                              h.message.msgId, h.message.payload)
                /\ h.fromPeerKey \in DOMAIN h.connections =>
                      \A j \in 1..Len(h.wrote) :
                          h.wrote[j].socket = h.connections[h.fromPeerKey]
                              => h.wrote[j].message.msgId # h.message.msgId

\* C1 witness: a message with ttl 2 arrived at a node with three connections and was
\* relayed with ttl 1 on the two it did not arrive on.
C1_Witness ==
    /\ nlast.op = "data"
    /\ Len(nlast.handled) = 1
    /\ nlast.handled[1].message.ttl = 2
    /\ Cardinality(DOMAIN nlast.handled[1].connections) = 3
    /\ nlast.handled[1].fromPeerKey \in DOMAIN nlast.handled[1].connections
    /\ Len(nlast.written) = 2
    /\ \A j \in 1..2 :
           /\ nlast.written[j].via = "forwardMessage"
           /\ nlast.written[j].socket # nlast.socket
           /\ nlast.written[j].message.ttl = 1
    /\ nlast.written[1].socket # nlast.written[2].socket

(***************************************************************************)
(* Connection handling and PING handling of one node (SpecNode).           *)
(***************************************************************************)
\* the peer key an accept or 'connect' event registered
RegisteredKey == nnode.sockets[nlast.socket].peerKey

\* the sockets with handlers set up for a key that have had no 'close' event
LiveSockets(key) ==
    {s \in nopen : s \in DOMAIN nnode.sockets /\ nnode.sockets[s].peerKey = key}

CallbacksOf(events, name) == {i \in 1..Len(events) : events[i].callback = name}

\* C12: at any time at most one live socket is bound to a peer key, and an accept or
\* a dial that connects for a key that is already connected changes nothing: the
\* socket and the PeerInfo under the key stay and no peer-joined fires, also when
\* two connectToPeer calls for the key were in flight together.
C12_OneConnectionPerKey ==
    /\ \A s \in nopen : Cardinality(LiveSockets(nnode.sockets[s].peerKey)) <= 1
    /\ (/\ nlast.op \in {"accept", "connect"}
        /\ RegisteredKey \in DOMAIN nlast.before.connections)
       => /\ nnode.connections = nlast.before.connections
          /\ nnode.peers = nlast.before.peers
          /\ CallbacksOf(nlast.events, "onPeerJoined") = {}

\* the key a connectToPeer call was made for: the one it dials or the one it resolves
DialedKey ==
    IF nlast.socket \in DOMAIN nnode.dialing THEN nnode.dialing[nlast.socket]
    ELSE nlast.events[1].peerKey

\* C13: connectToPeer for a key the connection table already holds resolves without
\* opening a socket, writing an announcement or emitting peer-joined, and leaves
\* the connection table and the peer registry unchanged.
C13_ConnectIdempotent ==
    (nlast.op = "connectToPeer" /\ DialedKey \in DOMAIN nlast.before.connections)
       => /\ nlast.socket \notin DOMAIN nnode.dialing
          /\ Len(nlast.events) = 1
          /\ nlast.events[1].callback = "resolve"
          /\ nlast.written = << >>
          /\ nnode = nlast.before

\* C13 witness: connectToPeer was called for a key that a dial had connected before
\* and resolved.
C13_Witness ==
    /\ nlast.op = "connectToPeer"
    /\ nlast.socket \notin DOMAIN nnode.dialing
    /\ DialedKey \in DOMAIN nnode.connections
    /\ nlast.events[1].callback = "resolve"

\* C14: when a dial connects the node registers the connection and a PeerInfo under
\* address:port, then writes a PEER_ANNOUNCEMENT with ttl 1 carrying its nickname
\* and a timestamp as the first frame on the socket, then emits peer-joined once,
\* then resolves.
C14_DialSequence ==
    nlast.op = "connect" =>
        LET key == nlast.before.dialing[nlast.socket]
        IN  /\ key \in DOMAIN nnode.connections
            /\ nnode.connections[key] = nlast.socket
            /\ key \in DOMAIN nnode.peers
            /\ nnode.peers[key].address = key.address
            /\ nnode.peers[key].port = key.port
            /\ nlast.socket \notin DOMAIN nlast.before.sockets
            /\ Len(nlast.written) = 1
            /\ nlast.written[1].socket = nlast.socket
            /\ nlast.written[1].message.msgType = MessageType.PEER_ANNOUNCEMENT
            /\ nlast.written[1].message.ttl = 1
            /\ decodeJSONPayload(nlast.written[1].message)
                   = [kind |-> "object", nickname |-> nnode.nickname.units,
                      timestamp |-> NodeNow]
            /\ nlast.written[1].data = OuterFrame(serialize(nlast.written[1].message))
            /\ Len(nlast.events) = 2
            /\ nlast.events[1].callback = "onPeerJoined"
            /\ nlast.events[1].peer = nnode.peers[key]
            /\ nlast.events[1].writes = 1
            /\ nlast.events[2].callback = "resolve"

\* C14 witness: a dial has connected and its announcement has been written.
C14_Witness ==
    /\ nlast.op = "connect"
    /\ Len(nlast.written) = 1
    /\ nlast.written[1].via = "sendPeerAnnouncement"
    /\ CallbacksOf(nlast.events, "onPeerJoined") = {1}

\* C15: when a dial fails before connecting, the connection table and the peer
\* registry are unchanged, no peer-joined or peer-left fires, and the failure is
\* signalled to the caller of connectToPeer.
C15_FailedDial ==
    nlast.op = "dialError" =>
        /\ nnode.connections = nlast.before.connections
        /\ nnode.peers = nlast.before.peers
        /\ nlast.written = << >>
        /\ Len(nlast.events) = 1
        /\ nlast.events[1].callback = "reject"
        /\ nlast.events[1].peerKey = nlast.before.dialing[nlast.socket]

\* C15 witness: of two dials for one key, one had connected and the other failed.
C15_Witness ==
    /\ nlast.op = "dialError"
    /\ nlast.events[1].callback = "reject"
    /\ nlast.events[1].peerKey \in DOMAIN nnode.connections

\* C19: a node that receives a PING never writes that PING to another peer, whatever
\* its ttl.
C19_PingNotRelayed ==
    nlast.op = "data" =>
        \A i \in 1..Len(nlast.handled) :
            nlast.handled[i].message.msgType = MessageType.PING =>
                \A j \in 1..Len(nlast.handled[i].wrote) :
                    ~(/\ nlast.handled[i].wrote[j].message.msgType = MessageType.PING
                      /\ nlast.handled[i].wrote[j].message.msgId
                             = nlast.handled[i].message.msgId)

\* C20: handling a non-duplicate PING from a connected peer P writes exactly one new
\* PONG frame (newly generated id, ttl 1, empty payload), on P's connection and on
\* no other.
C20_PingReplyUnicast ==
    nlast.op = "data" =>
        \A i \in 1..Len(nlast.handled) :
            LET h == nlast.handled[i]
                pongs == {j \in 1..Len(h.wrote) :
                             h.wrote[j].message.msgType = MessageType.PONG}
            IN  (/\ h.message.msgType = MessageType.PING
                 /\ h.fromPeerKey \in DOMAIN h.connections)
                => /\ Cardinality(pongs) = 1
                   /\ \A j \in pongs :
                          /\ h.wrote[j].socket = h.connections[h.fromPeerKey]
                          /\ h.wrote[j].message
                                 = Message(MessageType.PONG, 1,
                                           generateMessageId(NodeNow,
                                                             DrawRand(NodeRand, i - 1),
                                                             << >>),
                                           << >>)
                          /\ h.wrote[j].data = OuterFrame(serialize(h.wrote[j].message))

\* C20 witness: a PING arrived at a node with three connections, and one PONG was
\* written, on the connection the PING came in on.
C20_Witness ==
    /\ nlast.op = "data"
    /\ Len(nlast.handled) = 1
    /\ nlast.handled[1].message.msgType = MessageType.PING
    /\ Cardinality(DOMAIN nlast.handled[1].connections) = 3
    /\ Cardinality({j \in 1..Len(nlast.written) :
                       /\ nlast.written[j].message.msgType = MessageType.PONG
                       /\ nlast.written[j].socket = nlast.socket}) = 1

\* C26: every message a node writes to a socket (originated, reply, announcement or
\* relayed) has a ttl in 0..7, in the Message and in the ttl byte of the frame; a
\* relayed message's ttl is never negative and never greater than the ttl with which
\* it was received.
C26_WrittenTtlInRange ==
    nlast.op # "none" =>
        /\ \A i \in 1..Len(nlast.written) :
               /\ nlast.written[i].message.ttl \in 0..MAX_TTL
               /\ nlast.written[i].data[6] = nlast.written[i].message.ttl
        /\ \A i \in 1..Len(nlast.handled) :
               \A j \in 1..Len(nlast.handled[i].wrote) :
                   IsRelay(nlast.handled[i].wrote[j]) =>
                       /\ nlast.handled[i].wrote[j].message.ttl >= 0
                       /\ nlast.handled[i].wrote[j].message.ttl <= nlast.handled[i].message.ttl

\* C26 witness: a message received with ttl 7 has been relayed with ttl 6.
C26_Witness ==
    /\ nlast.op = "data"
    /\ Len(nlast.handled) = 1
    /\ nlast.handled[1].message.ttl = MAX_TTL
    /\ \E j \in 1..Len(nlast.handled[1].wrote) :
           /\ IsRelay(nlast.handled[1].wrote[j])
           /\ nlast.handled[1].wrote[j].message.ttl = MAX_TTL - 1

\* the last event was the 'close' of a socket that the connection table no longer
\* holds for its key: another socket has taken its place
StaleClose ==
    /\ nlast.op = "close"
    /\ LET key == nlast.before.sockets[nlast.socket].peerKey
       IN  /\ key \in DOMAIN nlast.before.connections
           /\ nlast.before.connections[key] # nlast.socket

\* C39: the close or error event of a socket that is no longer the one stored in
\* the connection table for its key (it was replaced by a reconnect, a second
\* concurrent dial or an inbound accept under the same key) never removes the newer
\* connection or its PeerInfo and never emits peer-left for it.
C39_StaleEventsHarmless ==
    StaleClose => /\ nnode.connections = nlast.before.connections
                  /\ nnode.peers = nlast.before.peers
                  /\ CallbacksOf(nlast.events, "onPeerLeft") = {}

(***************************************************************************)
(* The duplicates specification: a started node with two accepted          *)
(* connections, on which frames arrive that carry ids seen before or new   *)
(* ones, enough of them for messageCache to evict.                         *)
(***************************************************************************)
DupBodies ==
    { [msgType |-> MessageType.CHAT_MESSAGE, ttl |-> 2, payload |-> << 104 >>],
      [msgType |-> MessageType.CHAT_MESSAGE, ttl |-> 0, payload |-> << 104 >>],
      [msgType |-> MessageType.PING, ttl |-> 1, payload |-> << >>] }

\* what is remembered of an id since it last entered messageCache: the handleMessage
\* calls and the onMessage callbacks made for it, the socket it first arrived on
\* and the type of the message handled
NoHistory == [runs |-> 0, fired |-> 0, socket |-> 0, first |-> 0 - 1]

\* number of onMessage callbacks one handleMessage call made
Fired(h) == Cardinality({i \in 1..Len(h.emitted) : h.emitted[i].callback = "onMessage"})

\* count the handleMessage calls that followed the i-th dedup check of an event
RECURSIVE TallyRuns(_, _, _)
TallyRuns(hist, handled, i) ==
    IF handled = << >> THEN hist
    ELSE LET h == Head(handled)
             id == h.message.msgId
             counted ==
                 IF h.afterCheck = i /\ id \in DOMAIN hist
                 THEN [hist EXCEPT ![id].runs = @ + 1,
                                   ![id].fired = @ + Fired(h),
                                   ![id].first = IF @ < 0 THEN h.message.msgType ELSE @]
                 ELSE hist
         IN  TallyRuns(counted, Tail(handled), i)

\* replay the dedup checks of an event from the i-th on: a check forgets the ids
\* its insertion evicted, notes the arrival, and is followed by the handler or not
RECURSIVE Tally(_, _, _, _)
Tally(hist, ctx, socket, i) ==
    IF i > Len(ctx.checks) THEN hist
    ELSE LET c == ctx.checks[i]
             forgotten == [id \in DOMAIN hist |->
                              IF id \in c.evicted THEN NoHistory ELSE hist[id]]
             arrived == IF c.msgId \in DOMAIN hist
                        THEN [forgotten EXCEPT
                                 ![c.msgId].socket = IF @ = 0 THEN socket ELSE @]
                        ELSE forgotten
         IN  Tally(TallyRuns(arrived, ctx.handled, i), ctx, socket, i + 1)

\* a 'data' event carrying one whole frame, or the same frame twice; the frame
\* carries an id that has arrived before or the next one that has not
DupData ==
    \E socket \in nopen, body \in DupBodies, i \in 1..MaxIds, copies \in 1..2 :
        /\ i <= nfresh + 1
        /\ LET message == Message(body.msgType, body.ttl, NodeId(i), body.payload)
               frames == [j \in 1..copies |-> serialize(message)]
               ctx == OnData(NewContext(nnode), socket, StreamOf(frames),
                             NodeNow, NodeRand)
           IN  /\ NodeStep(ctx, "data", socket)
               /\ nhist' = Tally(TallyRuns(nhist, ctx.handled, 0), ctx, socket, 1)
        /\ nfresh' = IF i > nfresh THEN i ELSE nfresh
        /\ UNCHANGED << nopen, nsock >>

DupNext == DupData

\* C2: as long as an id has not been evicted from messageCache, the node runs a type
\* handler and a forward for it at most once, however many frames with that id
\* arrive and over whichever connections: a frame whose id is in the cache is
\* dropped with no handler run, no write and no callback, and a chat message that
\* arrives again fires onMessage exactly once in all.
C2_DuplicateSuppression ==
    /\ \A id \in NodeIds :
           /\ nhist[id].runs <= 1
           /\ nhist[id].first = MessageType.CHAT_MESSAGE => nhist[id].fired = 1
    /\ nlast.op = "data" =>
           /\ \A j \in 1..Len(nlast.handled) :
                  /\ nlast.handled[j].afterCheck \in 1..Len(nlast.checks)
                  /\ ~nlast.checks[nlast.handled[j].afterCheck].result
                  /\ \A o \in 1..Len(nlast.handled) :
                         nlast.handled[o].afterCheck = nlast.handled[j].afterCheck => o = j
           /\ (\A i \in 1..Len(nlast.checks) : nlast.checks[i].result) =>
                  /\ nlast.handled = << >>
                  /\ nlast.written = << >>
                  /\ nlast.events = << >>
                  /\ nnode = nlast.before

\* C2 witness: a chat message that was handled when it arrived on one connection
\* has arrived again on the other and was dropped; onMessage has fired once.
C2_Witness ==
    /\ nlast.op = "data"
    /\ Len(nlast.checks) = 1
    /\ nlast.checks[1].result
    /\ nlast.checks[1].msgId \in NodeIds
    /\ nhist[nlast.checks[1].msgId].socket \notin {0, nlast.socket}
    /\ nhist[nlast.checks[1].msgId].first = MessageType.CHAT_MESSAGE
    /\ nhist[nlast.checks[1].msgId].fired = 1
    /\ nhist[nlast.checks[1].msgId].runs = 1
    /\ nlast.events = << >>

(***************************************************************************)
(* The stream specification: a started node with three accepted            *)
(* connections.  Every 'data' event carries one to three whole outer       *)
(* frames on one connection; the frames are valid messages, bytes that are *)
(* no message, and messages whose inner payloadLength disagrees with the   *)
(* outer length.  nhist accumulates the frames received, the handleMessage *)
(* calls made and the frames written, in the order they happened.          *)
(***************************************************************************)
MaxStreamFrames == 3

StreamChatA == serialize(Message(MessageType.CHAT_MESSAGE, 2, NodeId(1), << 104 >>))
StreamChatB == serialize(Message(MessageType.CHAT_MESSAGE, 1, NodeId(2), << 105 >>))
\* a valid chat message followed, inside the outer frame, by two more bytes
StreamTrailing ==
    serialize(Message(MessageType.CHAT_MESSAGE, 2, NodeId(3), << 106 >>)) \o << 5, 1 >>

StreamFrames ==
    { StreamChatA,
      StreamChatB,
      StreamTrailing,
      \* fewer than 8 bytes
      << 1, 2, 3 >>,
      \* a ttl byte of 9
      << 5, 9, 0, 0, 0, 3, 0, 0 >>,
      \* a payloadLength of 5 with one byte following
      << 5, 1, 0, 0, 0, 9, 0, 5, 104 >> }

RECURSIVE WroteOf(_)
WroteOf(handled) ==
    IF handled = << >> THEN << >> ELSE Head(handled).wrote \o WroteOf(Tail(handled))

RECURSIVE EmittedOf(_)
EmittedOf(handled) ==
    IF handled = << >> THEN << >> ELSE Head(handled).emitted \o EmittedOf(Tail(handled))

StreamData ==
    \E socket \in nopen, k \in 1..(MaxStreamFrames - nfresh) :
        \E frames \in [1..k -> StreamFrames] :
            LET ctx == OnData(NewContext(nnode), socket, StreamOf(frames), NodeNow, NodeRand)
            IN  /\ nnode' = ctx.node
                /\ nlast' = [op |-> "data", socket |-> socket, before |-> nnode,
                             frames |-> frames, extracted |-> ctx.extracted,
                             written |-> ctx.written, events |-> ctx.events,
                             handled |-> ctx.handled, checks |-> ctx.checks]
                /\ nhist' = [received |-> nhist.received
                                 \o [i \in 1..k |-> [socket |-> socket, frame |-> frames[i]]],
                             handled |-> nhist.handled
                                 \o [i \in 1..Len(ctx.handled) |->
                                        [socket |-> socket,
                                         message |-> ctx.handled[i].message]],
                             written |-> nhist.written \o ctx.written]
                /\ nfresh' = nfresh + k
                /\ UNCHANGED << nopen, nsock >>
                /\ UNCHANGED << codecVars, dedupVars, framerVars, meshVars, lifeVars, pairVars >>

StreamNext == StreamData

\* the frames of a list that deserialize accepts
Decodable(frames) == SelectSeq(frames, LAMBDA f : deserialize(f) # Null)

\* C24: a complete outer frame that fails to decode is dropped with no handler run,
\* no forward and no application event; every connection stays registered and open,
\* and the valid frames after it, in the same chunk too, are processed: the messages
\* checked are exactly the decodable frames in order, the ones handled are those not
\* reported duplicate, and every write and callback belongs to one of them.
C24_MalformedIsolated ==
    nlast.op = "data" =>
        LET dec == Decodable(nlast.frames)
        IN  /\ Len(nlast.checks) = Len(dec)
            /\ \A i \in 1..Len(dec) : nlast.checks[i].msgId = deserialize(dec[i]).msgId
            /\ \A i \in 1..Len(dec) :
                   ~nlast.checks[i].result <=>
                       \E j \in 1..Len(nlast.handled) : nlast.handled[j].afterCheck = i
            /\ \A j \in 1..Len(nlast.handled) :
                   nlast.handled[j].message = deserialize(dec[nlast.handled[j].afterCheck])
            /\ nlast.written = WroteOf(nlast.handled)
            /\ nlast.events = EmittedOf(nlast.handled)
            /\ nnode.connections = nlast.before.connections
            /\ DOMAIN nnode.peers = DOMAIN nlast.before.peers
            /\ \A s \in DOMAIN nnode.sockets : ~nnode.sockets[s].destroyed
            /\ nnode.isRunning

\* C24 witness: one chunk carried a valid frame, bytes that are no message and
\* another valid frame, and both messages were handled.
C24_Witness ==
    /\ nlast.op = "data"
    /\ Len(nlast.frames) = 3
    /\ deserialize(nlast.frames[1]) # Null
    /\ deserialize(nlast.frames[2]) = Null
    /\ Len(nlast.handled) = 2
    /\ nlast.handled[2].message = deserialize(nlast.frames[3])

\* the payloadLength field of an inner message of at least 8 bytes
InnerLength(frame) == GetUint16BE(frame, 6)

\* C25: the framer cuts the stream by the outer length alone: the frames it extracts
\* from a chunk of whole frames are those frames, nothing is left in the buffer, and
\* whatever the inner payloadLength says the next frame is read from where the outer
\* length ends.  A frame whose inner length is smaller than L-8 is decoded with the
\* trailing bytes discarded; one with L<8 or an inner length larger than L-8 is
\* dropped.
C25_OuterLengthAuthoritative ==
    nlast.op = "data" =>
        /\ nlast.extracted = nlast.frames
        /\ nnode.sockets[nlast.socket].messageBuffer = << >>
        /\ \A i \in 1..Len(nlast.frames) :
               LET f == nlast.frames[i]
               IN  IF Len(f) < 8 \/ InnerLength(f) > Len(f) - 8
                   THEN deserialize(f) = Null
                   ELSE f[2] <= MAX_TTL =>
                            /\ deserialize(f) # Null
                            /\ deserialize(f).payload = SubSeq(f, 9, 8 + InnerLength(f))
        /\ Len(nlast.checks) = Len(Decodable(nlast.frames))

\* C25 witness: a frame with trailing bytes after its inner message, a frame whose
\* inner length overruns it and a valid frame came in one chunk; the first and the
\* third were handled.
C25_Witness ==
    /\ nlast.op = "data"
    /\ nlast.frames = << StreamTrailing, << 5, 1, 0, 0, 0, 9, 0, 5, 104 >>, StreamChatB >>
    /\ Len(nlast.handled) = 2
    /\ nlast.handled[1].message.payload = << 106 >>
    /\ nlast.handled[2].message.msgId = NodeId(2)

\* the ids of the relays written to a socket, in the order they were written
RelayedTo(socket) ==
    LET relays == SelectSeq(nhist.written, LAMBDA w : IsRelay(w) /\ w.socket = socket)
    IN  [i \in 1..Len(relays) |-> relays[i].message.msgId]

\* the ids of the handled messages that came from another socket with ttl above 0
RelayableFor(socket) ==
    LET from == SelectSeq(nhist.handled, LAMBDA h : h.socket # socket /\ h.message.ttl > 0)
    IN  [i \in 1..Len(from) |-> from[i].message.msgId]

\* the place in the order of arrival of the first frame that carries an id
FirstArrival(msgId) ==
    CHOOSE i \in 1..Len(nhist.received) :
        /\ deserialize(nhist.received[i].frame) # Null
        /\ deserialize(nhist.received[i].frame).msgId = msgId
        /\ \A j \in 1..(i - 1) :
               \/ deserialize(nhist.received[j].frame) = Null
               \/ deserialize(nhist.received[j].frame).msgId # msgId

\* C28: frames are handled in the order they arrived (on one connection, and so
\* also across the data events of one connection): the handler and the forward of a
\* frame complete before those of the next, and the relayed copies are written to
\* each other peer in that order.
C28_ArrivalOrder ==
    nlast.op = "data" =>
        /\ \A j \in 1..Len(nhist.handled) :
               /\ nhist.received[FirstArrival(nhist.handled[j].message.msgId)].socket
                      = nhist.handled[j].socket
               /\ \A k \in 1..(j - 1) :
                      FirstArrival(nhist.handled[k].message.msgId)
                          < FirstArrival(nhist.handled[j].message.msgId)
        /\ nlast.written = WroteOf(nlast.handled)
        /\ \A s \in nopen : RelayedTo(s) = RelayableFor(s)

\* C28 witness: two relayable messages came in one chunk on one connection and a
\* third on another connection; a peer was written the relays of the first two in
\* their order of arrival.
C28_Witness ==
    /\ nlast.op = "data"
    /\ Len(nhist.handled) = 3
    /\ nhist.handled[1].socket = nhist.handled[2].socket
    /\ nhist.handled[3].socket # nhist.handled[1].socket
    /\ nhist.received[1].socket = nhist.received[2].socket
    /\ \E s \in nopen :
           /\ Len(RelayedTo(s)) >= 2
           /\ RelayedTo(s)[1] = nhist.handled[1].message.msgId
           /\ RelayedTo(s)[2] = nhist.handled[2].message.msgId

(***************************************************************************)
(* The fault specification: a started node with three accepted             *)
(* connections.  A socket may start to throw on write, may emit 'error'    *)
(* and then 'close', or 'close' alone; meanwhile frames arrive and the     *)
(* application sends.  nhist counts the peer-left callbacks per peer key.  *)
(***************************************************************************)
FaultBodies ==
    { [msgType |-> MessageType.CHAT_MESSAGE, ttl |-> 2, payload |-> << 104 >>],
      [msgType |-> MessageType.PING, ttl |-> 1, payload |-> << >>] }

\* the peer-left callbacks of an event, added to the count of their peer key
RECURSIVE CountPeerLeft(_, _)
CountPeerLeft(count, events) ==
    IF events = << >> THEN count
    ELSE LET ev == Head(events)
         IN  CountPeerLeft(
                 IF ev.callback = "onPeerLeft" /\ ev.peer # Null
                 THEN [count EXCEPT ![PeerKey(ev.peer.address, ev.peer.port)] = @ + 1]
                 ELSE IF ev.callback = "onPeerLeft"
                 THEN [k \in DOMAIN count |-> count[k] + 1]
                 ELSE count,
                 Tail(events))

FaultStep(ctx, op, socket) ==
    /\ nnode' = ctx.node
    /\ nlast' = [op |-> op, socket |-> socket, before |-> nnode,
                 written |-> ctx.written, failed |-> ctx.failed, events |-> ctx.events,
                 handled |-> ctx.handled, checks |-> ctx.checks]
    /\ nhist' = CountPeerLeft(nhist, ctx.events)
    /\ UNCHANGED << nsock, nfresh >>
    /\ UNCHANGED << codecVars, dedupVars, framerVars, meshVars, lifeVars, pairVars >>

\* from now on socket.write throws on this socket
FaultBreak ==
    \E socket \in nopen :
        /\ ~nnode.sockets[socket].failing
        /\ FaultStep([NewContext(nnode) EXCEPT !.node.sockets[socket].failing = TRUE],
                     "break", socket)
        /\ UNCHANGED nopen

\* the 'error' event of an established connection; its 'close' follows later
FaultError ==
    \E socket \in nopen :
        /\ FaultStep(OnError(NewContext(nnode), socket), "error", socket)
        /\ UNCHANGED nopen

\* the 'close' event of an established connection
FaultClose ==
    \E socket \in nopen :
        /\ FaultStep(OnClose(NewContext(nnode), socket), "close", socket)
        /\ nopen' = nopen \ {socket}

\* a 'data' event carrying one whole frame
FaultData ==
    \E socket \in nopen, body \in FaultBodies, i \in 1..MaxNodeIds :
        /\ FaultStep(OnData(NewContext(nnode), socket,
                            OuterFrame(serialize(Message(body.msgType, body.ttl, NodeId(i),
                                                         body.payload))),
                            NodeNow, NodeRand),
                     "data", socket)
        /\ UNCHANGED nopen

\* the application calls sendMessage("hi", 3)
FaultSend ==
    /\ FaultStep(sendMessage(NewContext(nnode), << 104, 105 >>, 3, NodeNow, NodeRand),
                 "sendMessage", 0)
    /\ UNCHANGED nopen

FaultNext ==
    \/ FaultBreak
    \/ FaultError
    \/ FaultClose
    \/ FaultData
    \/ FaultSend

\* the number of frames an event wrote to a socket, and the number of its writes
\* that threw on it
WritesTo(written, socket) ==
    Cardinality({i \in 1..Len(written) : written[i].socket = socket})

\* C29: during a broadcast or a forward a write that throws on one peer's socket
\* does not stop the writes to the other peers and does not raise to the caller:
\* every peer in the connection table except the excluded one, whose socket does not
\* throw, gets the frame exactly once, in sendMessage and in the relay of a message.
C29_WriteFailureIsolated ==
    /\ nlast.op = "sendMessage" =>
           /\ \A key \in DOMAIN nlast.before.connections :
                  LET socket == nlast.before.connections[key]
                  IN  IF nlast.before.sockets[socket].failing
                      THEN WritesTo(nlast.written, socket) = 0
                               /\ WritesTo(nlast.failed, socket) = 1
                      ELSE WritesTo(nlast.written, socket) = 1
           /\ Len(nlast.events) = 1
           /\ nlast.events[1].callback = "onMessage"
           /\ nlast.events[1].isOwn
    /\ nlast.op = "data" =>
           /\ \A i \in 1..Len(nlast.handled) :
                  LET h == nlast.handled[i]
                      relays == SelectSeq(h.wrote, IsRelay)
                  IN  h.message.ttl > 0 =>
                          \A key \in DOMAIN h.connections \ {h.fromPeerKey} :
                              WritesTo(relays, h.connections[key])
                                  = IF nlast.before.sockets[h.connections[key]].failing
                                    THEN 0 ELSE 1
           /\ \A i \in 1..Len(nlast.events) : nlast.events[i].callback # "throw"

\* C29 witness: sendMessage ran with three peers in the table; the write to the
\* first socket threw and the other two peers were written the frame.
C29_Witness ==
    /\ nlast.op = "sendMessage"
    /\ Cardinality(DOMAIN nlast.before.connections) = 3
    /\ nlast.before.sockets[1].failing
    /\ WritesTo(nlast.failed, 1) = 1
    /\ WritesTo(nlast.written, 2) = 1
    /\ WritesTo(nlast.written, 3) = 1

\* C30: when the socket of a registered peer closes or errors, the peer's connection
\* and PeerInfo are both removed and peer-left fires once for it; an 'error' followed
\* by a 'close' of the same socket fires it once, not twice; the node keeps running
\* and the entries of the other peers are left as they were.
C30_PeerLoss ==
    /\ nlast.op \in {"close", "error"} =>
           LET key == nlast.before.sockets[nlast.socket].peerKey
           IN  /\ key \notin DOMAIN nnode.connections
               /\ key \notin DOMAIN nnode.peers
               /\ IF key \in DOMAIN nlast.before.peers
                  THEN /\ Len(nlast.events) = 1
                       /\ nlast.events[1].callback = "onPeerLeft"
                       /\ nlast.events[1].peer = nlast.before.peers[key]
                  ELSE nlast.events = << >>
               /\ nnode.connections = MapDelete(nlast.before.connections, key)
               /\ nnode.peers = MapDelete(nlast.before.peers, key)
               /\ nnode.isRunning
               /\ nlast.written = << >>
    /\ nlast.op # "none" =>
           \A key \in DOMAIN nhist :
               /\ nhist[key] <= 1
               /\ (key \notin DOMAIN nnode.peers) <=> (nhist[key] = 1)

\* C30 witness: a socket emitted 'error' and then 'close'; peer-left had fired at
\* the 'error' and did not fire again, and the other two peers are still registered.
C30_Witness ==
    /\ nlast.op = "close"
    /\ nlast.before.sockets[nlast.socket].peerKey \notin DOMAIN nlast.before.peers
    /\ nlast.events = << >>
    /\ nhist[nlast.before.sockets[nlast.socket].peerKey] = 1
    /\ Cardinality(DOMAIN nnode.connections) = 2
    /\ nopen = DOMAIN nnode.sockets \ {nlast.socket}

(***************************************************************************)
(* The handler specification: a started node with three accepted           *)
(* connections, on which whole frames of every message type arrive at a    *)
(* time later than the connections were made.  Each body carries the       *)
(* nickname its payload announces (Null when it announces none).           *)
(***************************************************************************)
\* Date.now() at the 'data' events; the connections were accepted at NodeNow
HandlerNow == 7

\* payloads: text that is no JSON, the JSON text {}, an announcement of the
\* nickname "B" and one of the empty nickname
HandlerPayloads ==
    { [bytes |-> << 120 >>, names |-> Null],
      [bytes |-> << 123, 125 >>, names |-> Null],
      [bytes |-> TextEncode(JSONStringify([nickname |-> << >>, timestamp |-> 0])),
       names |-> Null],
      [bytes |-> TextEncode(JSONStringify([nickname |-> << 66 >>, timestamp |-> 0])),
       names |-> Str(<< 66 >>)] }

\* the type bytes of the arriving messages: the types from PEER_DISCOVERY on and
\* two bytes that are no MessageType
HandlerTypes == (MessageTypeCodes \ {MessageType.PING, MessageType.PONG}) \cup {0, 255}

HandlerTtls == {0, 3}

\* the types this.messageHandlers has an entry for (P2PNetworkManager.js:42-48)
HandledTypes ==
    {MessageType.PING, MessageType.PONG, MessageType.PEER_DISCOVERY,
     MessageType.PEER_ANNOUNCEMENT, MessageType.CHAT_MESSAGE}

HandlerStep(ctx, socket, message, names) ==
    /\ nnode' = ctx.node
    /\ nlast' = [op |-> "data", socket |-> socket, before |-> nnode,
                 message |-> message, names |-> names,
                 written |-> ctx.written, events |-> ctx.events,
                 handled |-> ctx.handled, checks |-> ctx.checks]
    /\ UNCHANGED << nopen, nsock, nfresh, nhist >>
    /\ UNCHANGED << codecVars, dedupVars, framerVars, meshVars, lifeVars, pairVars >>

\* a 'data' event carrying one whole frame
HandlerData ==
    \E socket \in nopen, msgType \in HandlerTypes, ttl \in HandlerTtls,
       payload \in HandlerPayloads, i \in 1..MaxNodeIds :
        LET message == Message(msgType, ttl, NodeId(i), payload.bytes)
        IN  HandlerStep(OnData(NewContext(nnode), socket, OuterFrame(serialize(message)),
                               HandlerNow, NodeRand),
                        socket, message, payload.names)

HandlerNext == HandlerData

\* the frames the TTL rule has the node write for a message received from key
\* (P2PNetworkManager.js:281-285): none at ttl 0, else one copy with ttl - 1 per
\* other entry of the connection table
ExpectedRelays(node, message, key) ==
    IF message.ttl = 0 THEN {}
    ELSE {[socket |-> node.connections[k],
           message |-> [message EXCEPT !.ttl = @ - 1]] :
              k \in (DOMAIN node.connections) \ {key}}

\* the relays an event wrote
RelaysOf(written) ==
    {[socket |-> written[i].socket, message |-> written[i].message] :
        i \in {j \in 1..Len(written) : written[j].via = "forwardMessage"}}

\* the key of the socket the last frame arrived on, and whether the frame passed
\* the duplicate check
LastKey == nlast.before.sockets[nlast.socket].peerKey
LastFresh == nlast.op = "data" /\ Len(nlast.handled) = 1

\* C31: a PEER_ANNOUNCEMENT that is no duplicate, from a registered peer P: when
\* the payload decodes to an object with a nickname, P's PeerInfo gets that nickname
\* and lastSeen becomes the time of the event, and nothing else in the registry
\* changes; when the payload is no valid JSON or carries no nickname the registry
\* is unchanged.  In both cases the message is forwarded by the TTL rule.
C31_AnnouncementHandling ==
    (/\ LastFresh
     /\ nlast.message.msgType = MessageType.PEER_ANNOUNCEMENT
     /\ LastKey \in DOMAIN nlast.before.peers)
    => /\ nlast.names # Null =>
              nnode.peers = [nlast.before.peers EXCEPT
                                ![LastKey].nickname = nlast.names,
                                ![LastKey].lastSeen = HandlerNow]
       /\ nlast.names = Null => nnode.peers = nlast.before.peers
       /\ nnode.connections = nlast.before.connections
       /\ RelaysOf(nlast.written) = ExpectedRelays(nlast.before, nlast.message, LastKey)
       /\ Len(nlast.written) = Cardinality(RelaysOf(nlast.written))

\* C31 witness: peer P had announced the nickname "B" earlier; an announcement with
\* a payload that is no JSON arrives from P with ttl 3, leaves the registry as it was
\* and is relayed to the two other peers.
C31_Witness ==
    /\ LastFresh
    /\ nlast.message.msgType = MessageType.PEER_ANNOUNCEMENT
    /\ nlast.message.payload = << 120 >>
    /\ nlast.message.ttl = 3
    /\ nlast.before.peers[LastKey].nickname = Str(<< 66 >>)
    /\ nlast.before.peers[LastKey].lastSeen = HandlerNow
    /\ nnode.peers = nlast.before.peers
    /\ Len(nlast.written) = 2

\* C32: a message of a type with no handler (0x06, 0x07, 0x08 or any other type
\* byte) changes neither the peer registry nor the connection table and fires no
\* callback, yet its id is recorded in the dedup cache and it is forwarded by the
\* TTL rule like any other message.
C32_UnhandledTypesInert ==
    (/\ nlast.op = "data"
     /\ nlast.message.msgType \notin HandledTypes)
    => /\ nnode.peers = nlast.before.peers
       /\ nnode.connections = nlast.before.connections
       /\ nlast.events = << >>
       /\ nlast.message.msgId \in Elems(nnode.messageCache)
       /\ Len(nlast.checks) = 1
       /\ nlast.checks[1].result = (nlast.message.msgId
                                        \in Elems(nlast.before.messageCache))
       /\ LastFresh = ~nlast.checks[1].result
       /\ LastFresh =>
              /\ RelaysOf(nlast.written)
                     = ExpectedRelays(nlast.before, nlast.message, LastKey)
              /\ Len(nlast.written) = Cardinality(RelaysOf(nlast.written))
       /\ ~LastFresh => nlast.written = << >>

\* C32 witness: a message of type 0x08 (ACK) with ttl 3 and a new id has arrived and
\* was relayed with ttl 2 to the two other peers; its id is now in the cache.
C32_Witness ==
    /\ LastFresh
    /\ nlast.message.msgType = MessageType.ACK
    /\ nlast.message.ttl = 3
    /\ nlast.message.msgId \notin Elems(nlast.before.messageCache)
    /\ nlast.message.msgId \in Elems(nnode.messageCache)
    /\ Len(nlast.written) = 2
    /\ \A i \in 1..2 : nlast.written[i].message.ttl = 2
    /\ nlast.events = << >>

\* C33: the handlers of PEER_DISCOVERY and CHAT_MESSAGE leave the peer registry and
\* the connection table as they were: no entry added or removed, no nickname changed.
C33_DiscoveryAndChatKeepRegistry ==
    (/\ nlast.op = "data"
     /\ nlast.message.msgType \in {MessageType.PEER_DISCOVERY, MessageType.CHAT_MESSAGE})
    => /\ DOMAIN nnode.peers = DOMAIN nlast.before.peers
       /\ \A k \in DOMAIN nnode.peers :
              nnode.peers[k].nickname = nlast.before.peers[k].nickname
       /\ nnode.connections = nlast.before.connections

\* C33 witness: a PEER_DISCOVERY whose payload names the nickname "B" has been
\* handled, from a peer that has no nickname yet and still has none.
C33_Witness ==
    /\ LastFresh
    /\ nlast.message.msgType = MessageType.PEER_DISCOVERY
    /\ nlast.names = Str(<< 66 >>)
    /\ nnode.peers[LastKey].nickname = Null
    /\ Cardinality(DOMAIN nnode.peers) = 3

(***************************************************************************)
(* The dial specification: a started node whose application calls          *)
(* connectToPeer.  A dialing socket emits 'connect', 'error' or, after the *)
(* 10000 ms of its timeout option, 'timeout'; a socket that has timed out  *)
(* may still connect or fail later, or stay silent.  nhist keeps, per      *)
(* dialing socket, what became of the promise connectToPeer returned:      *)
(* "pending", "timedOut" (still pending, after the 'timeout' event),       *)
(* "resolved" or "rejected"; nfresh counts the dials that have had their   *)
(* first event.                                                            *)
(***************************************************************************)
DialStep(ctx, op, socket, outcome) ==
    /\ nnode' = ctx.node
    /\ nlast' = [op |-> op, socket |-> socket, before |-> nnode,
                 written |-> ctx.written, events |-> ctx.events,
                 handled |-> ctx.handled, checks |-> ctx.checks]
    /\ nhist' = IF outcome = "none" THEN nhist
                ELSE [x \in (DOMAIN nhist) \cup {socket} |->
                         IF x = socket THEN outcome ELSE nhist[x]]
    /\ nfresh' = IF socket \in DOMAIN nhist /\ nhist[socket] = "pending"
                 THEN nfresh + 1 ELSE nfresh
    /\ UNCHANGED << codecVars, dedupVars, framerVars, meshVars, lifeVars, pairVars >>

\* connectToPeer(address, port), up to the dial being under way
DialCall ==
    /\ nsock < MaxSockets
    /\ \E address \in NodeAddresses :
           LET ctx == connectToPeer(NewContext(nnode), nsock + 1, address, NodeListenPort)
               dials == (nsock + 1) \in DOMAIN ctx.node.dialing
           IN  /\ DialStep(ctx, "connectToPeer", nsock + 1,
                           IF dials THEN "pending" ELSE "none")
               /\ nsock' = IF dials THEN nsock + 1 ELSE nsock
    /\ UNCHANGED nopen

\* the 'connect' event of a dialing socket
DialConnect ==
    \E socket \in DOMAIN nnode.dialing :
        /\ DialStep(OnConnect(NewContext(nnode), socket, NodeNow, NodeRand),
                    "connect", socket, "resolved")
        /\ nopen' = nopen \cup {socket}
        /\ UNCHANGED nsock

\* the 'error' event of a dialing socket
DialError ==
    \E socket \in DOMAIN nnode.dialing :
        /\ DialStep(OnDialError(NewContext(nnode), socket), "dialError", socket,
                    "rejected")
        /\ UNCHANGED << nopen, nsock >>

\* the 'timeout' event of a dialing socket that has had no event yet
DialTimeout ==
    \E socket \in DOMAIN nnode.dialing :
        /\ nhist[socket] = "pending"
        /\ DialStep(OnDialTimeout(NewContext(nnode), socket), "timeout", socket,
                    "timedOut")
        /\ UNCHANGED << nopen, nsock >>

\* the 'close' event of an established connection
DialClose ==
    \E socket \in nopen :
        /\ DialStep(OnClose(NewContext(nnode), socket), "close", socket, "none")
        /\ nopen' = nopen \ {socket}
        /\ UNCHANGED nsock

DialNext ==
    \/ DialCall
    \/ DialConnect
    \/ DialError
    \/ DialTimeout
    \/ DialClose

\* the promise of the dial on a socket has been settled
Settled(socket) ==
    socket \in DOMAIN nhist /\ nhist[socket] \in {"resolved", "rejected"}

\* C34: every connectToPeer call eventually reports success or failure to its
\* caller, whether the dial connects, errors or times out: the promise of every
\* dial that was started is eventually resolved or rejected.
C34_BoundedDial ==
    \A socket \in 1..MaxSockets : (socket \in DOMAIN nhist) ~> Settled(socket)

(***************************************************************************)
(* The mesh specification: several started nodes.  Links are set up one at *)
(* a time (dial, 'connect' at the dialer and accept at the acceptor in     *)
(* either order, then the announcement and its relays), and when the mesh  *)
(* is quiet one node sends one chat message.  A socket's frames arrive in  *)
(* the order they were written, one 'data' event per frame; frames on      *)
(* different sockets arrive in any order.                                  *)
(***************************************************************************)
MeshNodes == 4
\* the links that may be set up: << dialer, acceptor >>
MeshLinks == << << 1, 2 >>, << 1, 3 >>, << 2, 3 >>, << 3, 4 >> >>
MeshTtls == {0, 1, MAX_TTL}
MeshText == << 104, 105 >>
MeshNow == 0

\* link l is the dialer's socket 2l-1 and the acceptor's socket 2l
MeshSockets == 1..(2 * Len(MeshLinks))
DialSocket(l) == 2 * l - 1
AcceptSocket(l) == 2 * l
Far(s) == IF s % 2 = 1 THEN s + 1 ELSE s - 1
Owner(s) == MeshLinks[(s + 1) \div 2][IF s % 2 = 1 THEN 1 ELSE 2]
\* the value of Math.random() at a node's next origination
MeshRand(n) == 4096 * n + mseq[n]

\* socket.write: the frames a handler wrote, appended to the far ends' streams; a
\* relay carries one hop more than the frame it relays
RECURSIVE Post(_, _, _)
Post(chan, written, relayHops) ==
    IF written = << >> THEN chan
    ELSE LET w == Head(written)
         IN  Post([chan EXCEPT ![Far(w.socket)] =
                      Append(@, [data |-> w.data,
                                 hops |-> IF IsRelay(w) THEN relayHops ELSE 0])],
                  Tail(written), relayHops)

Quiescent ==
    /\ \A s \in MeshSockets : mchan[s] = << >>
    /\ \A l \in DOMAIN MeshLinks : mstage[l] \in {"none", "up"}

\* connectToPeer at the dialer of a link
MeshDial ==
    /\ msent = Null
    /\ Quiescent
    /\ \E l \in DOMAIN MeshLinks :
           /\ mstage[l] = "none"
           /\ mnodes' = [mnodes EXCEPT ![MeshLinks[l][1]] =
                            connectToPeer(NewContext(@), DialSocket(l), MeshLinks[l][2],
                                          NodeListenPort).node]
           /\ mstage' = [mstage EXCEPT ![l] = "dialing"]
    /\ UNCHANGED << mchan, msent, mdelivered, mevict, mseq, mhops, mtick >>
    /\ UNCHANGED << codecVars, dedupVars, framerVars, nodeVars, lifeVars, pairVars >>

\* the 'connect' event at the dialer: registers the peer, writes the announcement
MeshConnect ==
    /\ \E l \in DOMAIN MeshLinks :
           /\ mstage[l] \in {"dialing", "accepted"}
           /\ LET n == MeshLinks[l][1]
                  ctx == OnConnect(NewContext(mnodes[n]), DialSocket(l), MeshNow,
                                   MeshRand(n))
              IN  /\ mnodes' = [mnodes EXCEPT ![n] = ctx.node]
                  /\ mchan' = Post(mchan, ctx.written, 0)
                  /\ mseq' = [mseq EXCEPT ![n] = @ + 1]
           /\ mstage' = [mstage EXCEPT ![l] = IF @ = "dialing" THEN "connected" ELSE "up"]
    /\ UNCHANGED << msent, mdelivered, mevict, mhops, mtick >>
    /\ UNCHANGED << codecVars, dedupVars, framerVars, nodeVars, lifeVars, pairVars >>

\* the server's connection callback at the acceptor
MeshAccept ==
    /\ \E l \in DOMAIN MeshLinks :
           /\ mstage[l] \in {"dialing", "connected"}
           /\ mnodes' = [mnodes EXCEPT ![MeshLinks[l][2]] =
                            handleIncomingConnection(NewContext(@), AcceptSocket(l),
                                                     MeshLinks[l][1],
                                                     EphemeralPort(DialSocket(l)),
                                                     MeshNow).node]
           /\ mstage' = [mstage EXCEPT ![l] = IF @ = "dialing" THEN "accepted" ELSE "up"]
    /\ UNCHANGED << mchan, msent, mdelivered, mevict, mseq, mhops, mtick >>
    /\ UNCHANGED << codecVars, dedupVars, framerVars, nodeVars, lifeVars, pairVars >>

\* the application of one node calls sendMessage(text, ttl)
MeshSend ==
    /\ msent = Null
    /\ Quiescent
    /\ \E origin \in 1..MeshNodes, ttl \in MeshTtls :
           LET ctx == sendMessage(NewContext(mnodes[origin]), MeshText, ttl, MeshNow,
                                  MeshRand(origin))
           IN  /\ mchan' = Post(mchan, ctx.written, 0)
               /\ msent' = [origin |-> origin,
                            message |-> createChatMessage(MeshText, ttl, MeshNow,
                                                          MeshRand(origin))]
               /\ mseq' = [mseq EXCEPT ![origin] = @ + 1]
    /\ UNCHANGED << mnodes, mstage, mdelivered, mevict, mhops, mtick >>
    /\ UNCHANGED << codecVars, dedupVars, framerVars, nodeVars, lifeVars, pairVars >>

\* an onMessage callback for the chat text with isOwn false
IsDelivery(event) ==
    /\ event.callback = "onMessage"
    /\ ~event.isOwn
    /\ event.text = Str(MeshText)

\* a frame is waiting on a socket whose handlers are set up
Readable(s) ==
    /\ mchan[s] # << >>
    /\ s \in DOMAIN mnodes[Owner(s)].sockets

\* the 'data' event for the next frame on a socket whose handlers are set up
MeshDeliver ==
    \E s \in MeshSockets :
        /\ Readable(s)
        /\ mtick' = 1 - mtick
        /\ LET frame == Head(mchan[s])
               ctx == OnData(NewContext(mnodes[Owner(s)]), s, frame.data, MeshNow,
                             MeshRand(Owner(s)))
               relayed == \E i \in 1..Len(ctx.written) : IsRelay(ctx.written[i])
           IN  /\ mnodes' = [mnodes EXCEPT ![Owner(s)] = ctx.node]
               /\ mchan' = Post([mchan EXCEPT ![s] = Tail(@)], ctx.written, frame.hops + 1)
               /\ mdelivered' = IF \E i \in 1..Len(ctx.events) : IsDelivery(ctx.events[i])
                                THEN mdelivered \cup {Owner(s)} ELSE mdelivered
               /\ mevict' = (mevict \/ \E i \in 1..Len(ctx.checks) :
                                            ctx.checks[i].evicted # {})
               /\ mhops' = IF msent # Null /\ relayed /\ frame.hops + 1 > mhops
                           THEN frame.hops + 1 ELSE mhops
        /\ UNCHANGED << mstage, msent, mseq >>
        /\ UNCHANGED << codecVars, dedupVars, framerVars, nodeVars, lifeVars, pairVars >>

MeshNext ==
    \/ MeshDial
    \/ MeshConnect
    \/ MeshAccept
    \/ MeshSend
    \/ MeshDeliver

\* the message carried by a frame in flight
Carried(frame) == deserialize(Slice(frame.data, 4, Len(frame.data)))

\* a frame in flight that carries a copy of the chat message
IsCopy(frame) ==
    /\ msent # Null
    /\ Carried(frame) # Null
    /\ Carried(frame).msgId = ToUint32(msent.message.msgId)

InFlight == UNION {{mchan[s][i] : i \in 1..Len(mchan[s])} : s \in MeshSockets}

NoCopyInFlight == \A frame \in InFlight : ~IsCopy(frame)

\* C3: after a single sendMessage with ttl k and no further originations the mesh
\* reaches a state with no copy of the message in flight, and none appears again; every
\* copy in flight has lost one unit of ttl per relay it went through, so no copy
\* has been relayed more than k times, and k is at most 7.
C3_FloodTermination ==
    /\ [](\A frame \in InFlight :
              IsCopy(frame) =>
                  /\ Carried(frame).ttl + frame.hops = msent.message.ttl
                  /\ frame.hops <= msent.message.ttl
                  /\ msent.message.ttl <= MAX_TTL)
    /\ [][msent # Null /\ NoCopyInFlight => NoCopyInFlight']_vars
    /\ (msent # Null) ~> NoCopyInFlight

\* C3 witness: a message sent with ttl 7 has been relayed twice in a row and the
\* mesh has gone quiet.
C3_Witness ==
    /\ msent # Null
    /\ msent.message.ttl = MAX_TTL
    /\ mhops >= 2
    /\ NoCopyInFlight
    /\ Quiescent

\* the nodes reachable from the originating node over at most d links
RECURSIVE Within(_)
Within(d) ==
    IF d = 0 THEN {msent.origin}
    ELSE LET near == Within(d - 1)
         IN  near \cup {n \in 1..MeshNodes :
                           \E l \in DOMAIN MeshLinks :
                               /\ mstage[l] = "up"
                               /\ \/ MeshLinks[l][1] \in near /\ MeshLinks[l][2] = n
                                  \/ MeshLinks[l][2] \in near /\ MeshLinks[l][1] = n}

\* C4: with stable connections and no cache eviction, a chat message originated with
\* ttl k is eventually delivered (onMessage with isOwn false) to every other node
\* that is reachable from the originating node over at most k+1 links, whatever the
\* order in which frames arrive on different connections.
C4_DeliveryWithinRadius ==
    (msent # Null) ~>
        (/\ msent # Null
         /\ \/ mevict
            \/ (Within(msent.message.ttl + 1) \ {msent.origin}) \subseteq mdelivered)

\* a copy of the chat message in flight that the originating node wrote as a relay
OwnRelayInFlight ==
    \E s \in MeshSockets :
        /\ Owner(Far(s)) = msent.origin
        /\ \E i \in 1..Len(mchan[s]) : IsCopy(mchan[s][i]) /\ mchan[s][i].hops > 0

\* C35: a node never delivers to its own application, as a remote message (onMessage
\* with isOwn false), a chat message it originated with sendMessage, and never
\* forwards its own message again, whatever the topology and the order in which
\* frames arrive on different connections.
C35_NoSelfDelivery ==
    msent # Null => /\ msent.origin \notin mdelivered
                    /\ ~OwnRelayInFlight

\* the nickname the node at an address was constructed with (InitMesh)
NicknameOf(address) == Str(<< 64 + address >>)

\* C36: the nickname stored in a node's PeerInfo for key K is always null or the
\* nickname that the peer behind K announces about itself; an announcement relayed
\* by K on behalf of another node never sets K's nickname.
C36_NicknameAttribution ==
    \A n \in 1..MeshNodes :
        \A key \in DOMAIN mnodes[n].peers :
            mnodes[n].peers[key].nickname \in {Null, NicknameOf(key.address)}

(***************************************************************************)
(* The ping specification: the nodes and links of the mesh specification,  *)
(* set up the same way; when the mesh is quiet one node broadcasts one     *)
(* PING (protocol.createPing() handed to broadcastMessage).  No connection *)
(* closes.  msent holds the PING and the node that sent it, mdelivered the *)
(* peers a PONG has reached that node from.                                *)
(***************************************************************************)
\* Date.now() from the PING on; the links were set up at MeshNow
PingNow == 1

\* the frames of the link setup arrive
PingSettle == msent = Null /\ MeshDeliver

\* broadcastMessage(createPing()) at one node that has a peer
PingSend ==
    /\ msent = Null
    /\ Quiescent
    /\ \E origin \in 1..MeshNodes :
           LET ping == createPing(PingNow, MeshRand(origin))
               ctx == broadcastMessage(NewContext(mnodes[origin]), ping)
           IN  /\ DOMAIN mnodes[origin].connections # {}
               /\ mchan' = Post(mchan, ctx.written, 0)
               /\ msent' = [origin |-> origin, message |-> ping]
               /\ mseq' = [mseq EXCEPT ![origin] = @ + 1]
    /\ UNCHANGED << mnodes, mstage, mdelivered, mevict, mhops, mtick >>
    /\ UNCHANGED << codecVars, dedupVars, framerVars, nodeVars, lifeVars, pairVars >>

\* the 'data' event for the next frame on a socket, after the PING was sent
PingDeliver ==
    /\ msent # Null
    /\ \E s \in MeshSockets :
           /\ Readable(s)
           /\ mtick' = 1 - mtick
           /\ LET n == Owner(s)
                  ctx == OnData(NewContext(mnodes[n]), s, Head(mchan[s]).data, PingNow,
                                MeshRand(n))
                  pong == \E i \in 1..Len(ctx.handled) :
                              ctx.handled[i].message.msgType = MessageType.PONG
              IN  /\ mnodes' = [mnodes EXCEPT ![n] = ctx.node]
                  /\ mchan' = Post([mchan EXCEPT ![s] = Tail(@)], ctx.written,
                                   Head(mchan[s]).hops + 1)
                  /\ mseq' = [mseq EXCEPT ![n] = @ + 1]
                  /\ mdelivered' = IF n = msent.origin /\ pong
                                   THEN mdelivered \cup {Owner(Far(s))} ELSE mdelivered
    /\ UNCHANGED << mstage, msent, mevict, mhops >>
    /\ UNCHANGED << codecVars, dedupVars, framerVars, nodeVars, lifeVars, pairVars >>

PingNext ==
    \/ MeshDial
    \/ MeshConnect
    \/ MeshAccept
    \/ PingSettle
    \/ PingSend
    \/ PingDeliver

\* a PONG has reached the sender of the PING from each of its peers, and the
\* lastSeen of each of them was refreshed since the PING
PingAnswered ==
    /\ msent # Null
    /\ \A key \in DOMAIN mnodes[msent.origin].connections :
           /\ key.address \in mdelivered
           /\ mnodes[msent.origin].peers[key].lastSeen = PingNow

\* C40: when a node broadcasts one PING to its connected peers and all connections
\* stay up, it eventually receives a PONG from every one of those peers, so that
\* each peer's lastSeen is refreshed, also when the peers are connected to each
\* other and relayed copies of the PING interleave with the direct ones.
C40_PingReachesSender == (msent # Null) ~> PingAnswered

(***************************************************************************)
(* The pair specification: nodes A (node 1, nickname "A") and B (node 2,   *)
(* nickname "B"), both started.  One of them dials the other; the dialer's *)
(* socket is socket 1 and the acceptor's is socket 2.  Once both ends are  *)
(* set up A calls sendMessage once.  mchan[s] holds the frames on their    *)
(* way to socket s; plog keeps, per node, the callbacks fired and the      *)
(* frames written since the start.                                         *)
(***************************************************************************)
PairA == 1
PairB == 2
PairTexts == {<< 104, 105 >>, << 104 >>}
PairTtls == 0..MAX_TTL

\* the node at whose end a socket is, and the socket at the other end
PairOwner(socket) == IF socket = 1 THEN pdialer ELSE 3 - pdialer
PairFar(socket) == 3 - socket

RECURSIVE PairPost(_, _)
PairPost(chan, written) ==
    IF written = << >> THEN chan
    ELSE PairPost([chan EXCEPT ![PairFar(Head(written).socket)] =
                      Append(@, Head(written).data)],
                  Tail(written))

\* the node after a handler, its frames posted and its callbacks and writes logged
PairStep(n, ctx) ==
    /\ mnodes' = [mnodes EXCEPT ![n] = ctx.node]
    /\ plog' = [plog EXCEPT ![n].events = @ \o ctx.events,
                            ![n].written = @ \o ctx.written]
    /\ mseq' = [mseq EXCEPT ![n] = @ + 1]
    /\ UNCHANGED << pdialer, mdelivered, mevict, mhops, mtick >>
    /\ UNCHANGED << codecVars, dedupVars, framerVars, nodeVars, lifeVars >>

\* connectToPeer(address of the other node, 8888) at the dialer
PairDial ==
    /\ mstage = "none"
    /\ PairStep(pdialer, connectToPeer(NewContext(mnodes[pdialer]), 1, 3 - pdialer,
                                       NodeListenPort))
    /\ mstage' = "dialing"
    /\ UNCHANGED << mchan, msent >>

\* the 'connect' event at the dialer
PairConnect ==
    /\ mstage \in {"dialing", "accepted"}
    /\ LET ctx == OnConnect(NewContext(mnodes[pdialer]), 1, MeshNow, MeshRand(pdialer))
       IN  /\ PairStep(pdialer, ctx)
           /\ mchan' = PairPost(mchan, ctx.written)
    /\ mstage' = IF mstage = "dialing" THEN "connected" ELSE "up"
    /\ UNCHANGED msent

\* the server's connection callback at the acceptor
PairAccept ==
    /\ mstage \in {"dialing", "connected"}
    /\ PairStep(3 - pdialer,
                handleIncomingConnection(NewContext(mnodes[3 - pdialer]), 2, pdialer,
                                         EphemeralPort(1), MeshNow))
    /\ mstage' = IF mstage = "dialing" THEN "accepted" ELSE "up"
    /\ UNCHANGED << mchan, msent >>

\* A's application calls sendMessage(text, ttl)
PairSend ==
    /\ mstage = "up"
    /\ msent = Null
    /\ \E text \in PairTexts, ttl \in PairTtls :
           LET ctx == sendMessage(NewContext(mnodes[PairA]), text, ttl, MeshNow,
                                  MeshRand(PairA))
           IN  /\ PairStep(PairA, ctx)
               /\ mchan' = PairPost(mchan, ctx.written)
               /\ msent' = [text |-> text, ttl |-> ttl,
                            message |-> createChatMessage(text, ttl, MeshNow,
                                                          MeshRand(PairA))]
    /\ UNCHANGED mstage

\* the 'data' event for the next frame on a socket whose handlers are set up
PairDeliver ==
    \E socket \in 1..2 :
        /\ mchan[socket] # << >>
        /\ socket \in DOMAIN mnodes[PairOwner(socket)].sockets
        /\ LET ctx == OnData(NewContext(mnodes[PairOwner(socket)]), socket,
                             Head(mchan[socket]), MeshNow, MeshRand(PairOwner(socket)))
           IN  /\ PairStep(PairOwner(socket), ctx)
               /\ mchan' = PairPost([mchan EXCEPT ![socket] = Tail(@)], ctx.written)
        /\ UNCHANGED << mstage, msent >>

PairNext ==
    \/ PairDial
    \/ PairConnect
    \/ PairAccept
    \/ PairSend
    \/ PairDeliver

\* the onMessage callbacks a node has fired
OnMessageOf(n) == SelectSeq(plog[n].events, LAMBDA ev : ev.callback = "onMessage")

\* the frames a node has written that carry the id of the message A sent
CopiesWrittenBy(n) ==
    SelectSeq(plog[n].written,
              LAMBDA w : w.message.msgId = ToUint32(msent.message.msgId)
                            \/ w.message.msgId = msent.message.msgId)

PairQuiet == \A socket \in 1..2 : mchan[socket] = << >>

\* C21: after A (nickname "A") and B connect, whichever of them dialed, and A calls
\* sendMessage(text, ttl), once the frames have arrived B's onMessage has fired
\* exactly once, with ("A", text, false), B has written nothing back to A for the
\* message, and A's onMessage has fired once for it, with isOwn true.
C21_TwoNodeChat ==
    msent # Null =>
        /\ Len(OnMessageOf(PairB)) <= 1
        /\ CopiesWrittenBy(PairB) = << >>
        /\ Len(CopiesWrittenBy(PairA)) = 1
        /\ OnMessageOf(PairA)
               = << [callback |-> "onMessage", sender |-> Str(<< 65 >>),
                     text |-> Str(msent.text), isOwn |-> TRUE, writes |-> 1] >>
        /\ PairQuiet =>
               /\ Len(OnMessageOf(PairB)) = 1
               /\ OnMessageOf(PairB)[1].sender = Str(<< 65 >>)
               /\ OnMessageOf(PairB)[1].text = Str(msent.text)
               /\ ~OnMessageOf(PairB)[1].isOwn

(***************************************************************************)
(* The lifecycle specification: one node with a clock.  Connections are    *)
(* accepted, dialled and closed, frames arrive, time passes, the cleanup   *)
(* timer fires when it is due, and the application stops and restarts the  *)
(* node.  The clock counts periods of the cleanup timer (60000 ms).        *)
(***************************************************************************)
MaxTicks == 6
MaxLifeSockets == 2

\* the period of the cleanup timer (P2PNetworkManager.js:442, 445), in milliseconds
cleanupPeriod == 60000
\* Date.now() at the current tick
LifeNow == lnow * cleanupPeriod
LifeDialAddress == 2
LifeAcceptAddress == 3

LifeBodies ==
    { [msgType |-> MessageType.CHAT_MESSAGE, ttl |-> 0, payload |-> << 104 >>],
      [msgType |-> MessageType.PONG, ttl |-> 0, payload |-> << >>] }

\* per peer key since it was last registered: the peer-left callbacks for it and
\* the tick at which a frame last arrived from it
IsPeerEvent(ev) == ev.callback \in {"onPeerJoined", "onPeerLeft"}

RECURSIVE CountLeft(_, _)
CountLeft(peer, events) ==
    IF events = << >> THEN peer
    ELSE LET ev == Head(events)
             key == PeerKey(ev.peer.address, ev.peer.port)
         IN  CountLeft(IF ev.callback = "onPeerLeft" /\ key \in DOMAIN peer
                       THEN [peer EXCEPT ![key].left = @ + 1] ELSE peer,
                       Tail(events))

LifeStep(ctx, op, socket) ==
    /\ nnode' = ctx.node
    /\ nlast' = [op |-> op, socket |-> socket, before |-> nnode,
                 written |-> ctx.written, events |-> ctx.events,
                 handled |-> ctx.handled, checks |-> ctx.checks]
    /\ lpeer' =
          LET counted == CountLeft(lpeer, SelectSeq(ctx.events, IsPeerEvent))
          IN  IF op \in {"accept", "connect"}
              THEN MapSet(counted, ctx.node.sockets[socket].peerKey,
                          [left |-> 0, traffic |-> lnow])
              ELSE IF op = "data" /\ nnode.sockets[socket].peerKey \in DOMAIN counted
              THEN [counted EXCEPT ![nnode.sockets[socket].peerKey].traffic = lnow]
              ELSE counted
    /\ UNCHANGED << nfresh, nhist >>
    /\ UNCHANGED << codecVars, dedupVars, framerVars, meshVars, pairVars >>

LifeAccept ==
    /\ nsock < MaxLifeSockets
    /\ nnode.server # Null
    /\ LifeStep(handleIncomingConnection(NewContext(nnode), nsock + 1, LifeAcceptAddress,
                                         EphemeralPort(nsock + 1), LifeNow),
                "accept", nsock + 1)
    /\ nsock' = nsock + 1
    /\ nopen' = nopen \cup {nsock + 1}
    /\ UNCHANGED << lnow, ltimers >>

LifeDial ==
    /\ nsock < MaxLifeSockets
    /\ LET ctx == connectToPeer(NewContext(nnode), nsock + 1, LifeDialAddress,
                                NodeListenPort)
       IN  /\ LifeStep(ctx, "connectToPeer", nsock + 1)
           /\ nsock' = IF (nsock + 1) \in DOMAIN ctx.node.dialing THEN nsock + 1 ELSE nsock
    /\ UNCHANGED << nopen, lnow, ltimers >>

LifeConnect ==
    \E socket \in DOMAIN nnode.dialing :
        /\ LifeStep(OnConnect(NewContext(nnode), socket, LifeNow, NodeRand),
                    "connect", socket)
        /\ nopen' = nopen \cup {socket}
        /\ UNCHANGED << nsock, lnow, ltimers >>

LifeDialError ==
    \E socket \in DOMAIN nnode.dialing :
        /\ LifeStep(OnDialError(NewContext(nnode), socket), "dialError", socket)
        /\ UNCHANGED << nopen, nsock, lnow, ltimers >>

\* the 'close' event of a socket the other end closed or stop() destroyed
LifeClose ==
    \E socket \in nopen :
        /\ LifeStep(OnClose(NewContext(nnode), socket), "close", socket)
        /\ nopen' = nopen \ {socket}
        /\ UNCHANGED << nsock, lnow, ltimers >>

\* a 'data' event carrying one whole frame, on a socket that was not destroyed
LifeData ==
    \E socket \in nopen, body \in LifeBodies, i \in 1..MaxNodeIds :
        /\ ~nnode.sockets[socket].destroyed
        /\ LifeStep(OnData(NewContext(nnode), socket,
                           OuterFrame(serialize(Message(body.msgType, body.ttl, NodeId(i),
                                                        body.payload))),
                           LifeNow, NodeRand),
                    "data", socket)
        /\ UNCHANGED << nopen, nsock, lnow, ltimers >>

\* the application calls stop()
LifeStop ==
    /\ nnode.isRunning
    /\ LifeStep(stop(NewContext(nnode)), "stop", 0)
    /\ UNCHANGED << nopen, nsock, lnow, ltimers >>

\* the application calls start() and the listen succeeds: startCleanupTask arms
\* the cleanup timer
LifeStart ==
    /\ ~nnode.isRunning
    /\ LifeStep(start(NewContext(nnode)), "start", 0)
    /\ ltimers' = ltimers \cup {lnow + 1}
    /\ UNCHANGED << nopen, nsock, lnow >>

\* a cleanup timer that is due fires
LifeSweep ==
    \E due \in ltimers :
        /\ due <= lnow
        /\ LET swept == cleanup(NewContext(nnode), LifeNow)
           IN  /\ LifeStep(swept.ctx, "cleanup", 0)
               /\ ltimers' = (ltimers \ {due}) \cup (IF swept.rearm THEN {lnow + 1} ELSE {})
        /\ UNCHANGED << nopen, nsock, lnow >>

\* a cleanup period passes, once every due timer has fired
LifeTick ==
    /\ lnow < MaxTicks
    /\ \A due \in ltimers : due > lnow
    /\ lnow' = lnow + 1
    /\ LifeStep(NewContext(nnode), "tick", 0)
    /\ UNCHANGED << nopen, nsock, ltimers >>

LifeNext ==
    \/ LifeAccept
    \/ LifeDial
    \/ LifeConnect
    \/ LifeDialError
    \/ LifeClose
    \/ LifeData
    \/ LifeStop
    \/ LifeStart
    \/ LifeSweep
    \/ LifeTick

\* the keys stop() or a sweep found in the connection table before it ran
KeysBefore == DOMAIN nlast.before.connections

\* a key is stale at the current tick when no frame arrived from it (and it was
\* not registered) within the staleness threshold
StaleByTraffic(key) == (lnow - lpeer[key].traffic) * cleanupPeriod > staleThreshold

\* C11: in every reachable state of a node the keys of the connection table
\* are the keys of the peer registry.
C11_TablesCorrespond ==
    DOMAIN nnode.connections = DOMAIN nnode.peers

\* C16: once stop() has returned the listening socket and every connection are
\* closed and the connection table is empty, and until a later start no
\* onMessage, onPeerJoined, onPeerLeft or onConnectionError callback fires.
C16_StopIsFinal ==
    /\ nlast.op = "stop" =>
          /\ nnode.server = Null
          /\ nnode.connections = EmptyMap
          /\ \A key \in KeysBefore :
                nnode.sockets[nlast.before.connections[key]].destroyed
    /\ (nlast.op \notin {"none", "start", "stop"} /\ ~nlast.before.isRunning) =>
          \A i \in 1..Len(nlast.events) :
              nlast.events[i].callback \notin
                  {"onMessage", "onPeerJoined", "onPeerLeft", "onConnectionError"}

\* C17: a sweep of a running node removes every registered peer from which no
\* traffic arrived for more than 5 minutes: its connection is torn down, its
\* PeerInfo is removed, and peer-left fires exactly once for it, later close
\* events of its socket included.
C17_StaleSweep ==
    /\ (nlast.op = "cleanup" /\ nlast.before.isRunning) =>
          \A key \in KeysBefore \cap DOMAIN nlast.before.peers :
              StaleByTraffic(key) =>
                  /\ key \notin DOMAIN nnode.connections
                  /\ key \notin DOMAIN nnode.peers
                  /\ nnode.sockets[nlast.before.connections[key]].destroyed
                  /\ lpeer[key].left = 1
    /\ \A key \in DOMAIN lpeer : lpeer[key].left <= 1

\* C18: a message of any type received from a registered peer sets that peer's
\* lastSeen to the current time, so a sweep never evicts a peer from which a
\* message arrived within the last 5 minutes.
C18_LastSeenTracksTraffic ==
    /\ (nlast.op = "data" /\ Len(nlast.handled) > 0) =>
          LET key == nlast.before.sockets[nlast.socket].peerKey
          IN  key \in DOMAIN nlast.before.peers =>
                  /\ key \in DOMAIN nnode.peers
                  /\ nnode.peers[key].lastSeen = LifeNow
    /\ nlast.op = "cleanup" =>
          \A key \in DOMAIN nlast.before.peers \cap DOMAIN lpeer :
              ~StaleByTraffic(key) => key \in DOMAIN nnode.peers

\* the last event was a frame arriving on a socket whose peer the stale sweep had
\* removed: the socket is still open, no other socket was ever bound to its key,
\* and the key is in the registry no more
FromEvictedPeer ==
    /\ nlast.op = "data"
    /\ LET key == nlast.before.sockets[nlast.socket].peerKey
       IN  /\ key \notin DOMAIN nlast.before.peers
           /\ \A other \in DOMAIN nlast.before.sockets :
                  other # nlast.socket => nlast.before.sockets[other].peerKey # key

\* C37: after a peer has been removed from the registry by the stale sweep, no
\* frame arriving on that peer's socket is handled, delivered to the application or
\* forwarded to other peers.
C37_EvictedPeersSilent ==
    FromEvictedPeer => /\ nlast.handled = << >>
                       /\ nlast.events = << >>
                       /\ nlast.written = << >>

\* C38: a connectToPeer dial that was started before stop() and connects after
\* stop() has returned adds no connection and no peer and fires no peer-joined; the
\* connection table stays empty while the node is stopped.
C38_NoRegistrationAfterStop ==
    [][(/\ nlast.op = "stop"
        /\ nlast'.op = "connect"
        /\ nlast'.socket \in DOMAIN nlast.before.dialing)
       => /\ nnode'.connections = EmptyMap
          /\ nnode'.peers = nnode.peers
          /\ CallbacksOf(nlast'.events, "onPeerJoined") = {}]_vars

(***************************************************************************)
(* The specifications.  Each one runs one part of the program and leaves   *)
(* the variables of the other parts at their initial values.               *)
(***************************************************************************)
InitCodec ==
    /\ cpc = "idle"
    /\ cmsg = Null
    /\ cby = "none"
    /\ cwire = << >>
    /\ cout = Null
    /\ dcache = << >>
    /\ dseen = {}
    /\ dorder = << >>
    /\ dever = FALSE
    /\ dcalls = 0
    /\ dlast = [kind |-> "none"]
    /\ fnode = Null
    /\ fsent = << >>
    /\ fpos = 0
    /\ fextracted = << >>
    /\ fchunk = 0
    /\ nnode = Null
    /\ nopen = {}
    /\ nsock = 0
    /\ nfresh = 0
    /\ nhist = << >>
    /\ nlast = [op |-> "none"]
    /\ mnodes = << >>
    /\ mchan = << >>
    /\ mstage = << >>
    /\ msent = Null
    /\ mdelivered = {}
    /\ mevict = FALSE
    /\ mseq = << >>
    /\ mhops = 0
    /\ mtick = 0
    /\ lnow = 0
    /\ ltimers = {}
    /\ lpeer = << >>
    /\ pdialer = 0
    /\ plog = << >>

\* a P2PProtocol as constructed (P2PProtocol.js:34-39): an empty messageCache
InitDedup ==
    /\ dcache = << >>
    /\ dseen = {}
    /\ dorder = << >>
    /\ dever = FALSE
    /\ dcalls = 0
    /\ dlast = [kind |-> "none"]
    /\ cpc = "idle"
    /\ cmsg = Null
    /\ cby = "none"
    /\ cwire = << >>
    /\ cout = Null
    /\ fnode = Null
    /\ fsent = << >>
    /\ fpos = 0
    /\ fextracted = << >>
    /\ fchunk = 0
    /\ nnode = Null
    /\ nopen = {}
    /\ nsock = 0
    /\ nfresh = 0
    /\ nhist = << >>
    /\ nlast = [op |-> "none"]
    /\ mnodes = << >>
    /\ mchan = << >>
    /\ mstage = << >>
    /\ msent = Null
    /\ mdelivered = {}
    /\ mevict = FALSE
    /\ mseq = << >>
    /\ mhops = 0
    /\ mtick = 0
    /\ lnow = 0
    /\ ltimers = {}
    /\ lpeer = << >>
    /\ pdialer = 0
    /\ plog = << >>

\* a node that has accepted one connection, and the frames about to arrive on it
InitFramer ==
    /\ fnode = handleIncomingConnection(
                   NewContext(P2PNetworkManager(8888, Str(<< 65 >>))),
                   FramerSocket, FramerPeer.address, FramerPeer.port, 0).node
    /\ fsent \in UNION {[1..k -> FramerFrames] : k \in 1..MaxFrames}
    /\ fpos = 0
    /\ fextracted = << >>
    /\ fchunk = 0
    /\ cpc = "idle"
    /\ cmsg = Null
    /\ cby = "none"
    /\ cwire = << >>
    /\ cout = Null
    /\ dcache = << >>
    /\ dseen = {}
    /\ dorder = << >>
    /\ dever = FALSE
    /\ dcalls = 0
    /\ dlast = [kind |-> "none"]
    /\ nnode = Null
    /\ nopen = {}
    /\ nsock = 0
    /\ nfresh = 0
    /\ nhist = << >>
    /\ nlast = [op |-> "none"]
    /\ mnodes = << >>
    /\ mchan = << >>
    /\ mstage = << >>
    /\ msent = Null
    /\ mdelivered = {}
    /\ mevict = FALSE
    /\ mseq = << >>
    /\ mhops = 0
    /\ mtick = 0
    /\ lnow = 0
    /\ ltimers = {}
    /\ lpeer = << >>
    /\ pdialer = 0
    /\ plog = << >>

\* a node constructed and started (P2PNetworkManager.js:24-49, 54-89)
InitNode ==
    /\ nnode = start(NewContext(P2PNetworkManager(NodeListenPort, Str(<< 65 >>)))).node
    /\ nopen = {}
    /\ nsock = 0
    /\ nfresh = 0
    /\ nhist = << >>
    /\ nlast = [op |-> "none"]
    /\ cpc = "idle"
    /\ cmsg = Null
    /\ cby = "none"
    /\ cwire = << >>
    /\ cout = Null
    /\ dcache = << >>
    /\ dseen = {}
    /\ dorder = << >>
    /\ dever = FALSE
    /\ dcalls = 0
    /\ dlast = [kind |-> "none"]
    /\ fnode = Null
    /\ fsent = << >>
    /\ fpos = 0
    /\ fextracted = << >>
    /\ fchunk = 0
    /\ mnodes = << >>
    /\ mchan = << >>
    /\ mstage = << >>
    /\ msent = Null
    /\ mdelivered = {}
    /\ mevict = FALSE
    /\ mseq = << >>
    /\ mhops = 0
    /\ mtick = 0
    /\ lnow = 0
    /\ ltimers = {}
    /\ lpeer = << >>
    /\ pdialer = 0
    /\ plog = << >>

\* a started node with no connection and no dial
InitDial ==
    /\ nnode = start(NewContext(P2PNetworkManager(NodeListenPort, Str(<< 65 >>)))).node
    /\ nopen = {}
    /\ nsock = 0
    /\ nfresh = 0
    /\ nhist = << >>
    /\ nlast = [op |-> "none"]
    /\ cpc = "idle"
    /\ cmsg = Null
    /\ cby = "none"
    /\ cwire = << >>
    /\ cout = Null
    /\ dcache = << >>
    /\ dseen = {}
    /\ dorder = << >>
    /\ dever = FALSE
    /\ dcalls = 0
    /\ dlast = [kind |-> "none"]
    /\ fnode = Null
    /\ fsent = << >>
    /\ fpos = 0
    /\ fextracted = << >>
    /\ fchunk = 0
    /\ mnodes = << >>
    /\ mchan = << >>
    /\ mstage = << >>
    /\ msent = Null
    /\ mdelivered = {}
    /\ mevict = FALSE
    /\ mseq = << >>
    /\ mhops = 0
    /\ mtick = 0
    /\ lnow = 0
    /\ ltimers = {}
    /\ lpeer = << >>
    /\ pdialer = 0
    /\ plog = << >>

\* a started node that has accepted a connection from each of two hosts
InitDup ==
    /\ nnode = handleIncomingConnection(
                   NewContext(handleIncomingConnection(
                       NewContext(start(NewContext(P2PNetworkManager(NodeListenPort,
                                                                     Str(<< 65 >>)))).node),
                       1, 2, EphemeralPort(1), NodeNow).node),
                   2, 3, EphemeralPort(2), NodeNow).node
    /\ nopen = {1, 2}
    /\ nsock = 2
    /\ nfresh = 0
    /\ nhist = [id \in NodeIds |-> NoHistory]
    /\ nlast = [op |-> "none"]
    /\ cpc = "idle"
    /\ cmsg = Null
    /\ cby = "none"
    /\ cwire = << >>
    /\ cout = Null
    /\ dcache = << >>
    /\ dseen = {}
    /\ dorder = << >>
    /\ dever = FALSE
    /\ dcalls = 0
    /\ dlast = [kind |-> "none"]
    /\ fnode = Null
    /\ fsent = << >>
    /\ fpos = 0
    /\ fextracted = << >>
    /\ fchunk = 0
    /\ mnodes = << >>
    /\ mchan = << >>
    /\ mstage = << >>
    /\ msent = Null
    /\ mdelivered = {}
    /\ mevict = FALSE
    /\ mseq = << >>
    /\ mhops = 0
    /\ mtick = 0
    /\ lnow = 0
    /\ ltimers = {}
    /\ lpeer = << >>
    /\ pdialer = 0
    /\ plog = << >>

\* every node constructed and started, no link set up
InitMesh ==
    /\ mnodes = [n \in 1..MeshNodes |->
                    start(NewContext(P2PNetworkManager(NodeListenPort,
                                                       Str(<< 64 + n >>)))).node]
    /\ mchan = [s \in MeshSockets |-> << >>]
    /\ mstage = [l \in DOMAIN MeshLinks |-> "none"]
    /\ msent = Null
    /\ mdelivered = {}
    /\ mevict = FALSE
    /\ mseq = [n \in 1..MeshNodes |-> 0]
    /\ mhops = 0
    /\ mtick = 0
    /\ cpc = "idle"
    /\ cmsg = Null
    /\ cby = "none"
    /\ cwire = << >>
    /\ cout = Null
    /\ dcache = << >>
    /\ dseen = {}
    /\ dorder = << >>
    /\ dever = FALSE
    /\ dcalls = 0
    /\ dlast = [kind |-> "none"]
    /\ fnode = Null
    /\ fsent = << >>
    /\ fpos = 0
    /\ fextracted = << >>
    /\ fchunk = 0
    /\ nnode = Null
    /\ nopen = {}
    /\ nsock = 0
    /\ nfresh = 0
    /\ nhist = << >>
    /\ nlast = [op |-> "none"]
    /\ lnow = 0
    /\ ltimers = {}
    /\ lpeer = << >>
    /\ pdialer = 0
    /\ plog = << >>

InitPing ==
    /\ mnodes = [n \in 1..MeshNodes |->
                    start(NewContext(P2PNetworkManager(NodeListenPort,
                                                       Str(<< 64 + n >>)))).node]
    /\ mchan = [s \in MeshSockets |-> << >>]
    /\ mstage = [l \in DOMAIN MeshLinks |-> "none"]
    /\ msent = Null
    /\ mdelivered = {}
    /\ mevict = FALSE
    /\ mseq = [n \in 1..MeshNodes |-> 0]
    /\ mhops = 0
    /\ mtick = 0
    /\ cpc = "idle"
    /\ cmsg = Null
    /\ cby = "none"
    /\ cwire = << >>
    /\ cout = Null
    /\ dcache = << >>
    /\ dseen = {}
    /\ dorder = << >>
    /\ dever = FALSE
    /\ dcalls = 0
    /\ dlast = [kind |-> "none"]
    /\ fnode = Null
    /\ fsent = << >>
    /\ fpos = 0
    /\ fextracted = << >>
    /\ fchunk = 0
    /\ nnode = Null
    /\ nopen = {}
    /\ nsock = 0
    /\ nfresh = 0
    /\ nhist = << >>
    /\ nlast = [op |-> "none"]
    /\ lnow = 0
    /\ ltimers = {}
    /\ lpeer = << >>
    /\ pdialer = 0
    /\ plog = << >>

InitPair ==
    /\ mnodes = [n \in 1..2 |->
                    start(NewContext(P2PNetworkManager(NodeListenPort,
                                                       Str(<< 64 + n >>)))).node]
    /\ mchan = [s \in 1..2 |-> << >>]
    /\ mstage = "none"
    /\ msent = Null
    /\ mdelivered = {}
    /\ mevict = FALSE
    /\ mseq = [n \in 1..2 |-> 0]
    /\ mhops = 0
    /\ mtick = 0
    /\ pdialer \in {PairA, PairB}
    /\ plog = [n \in 1..2 |-> [events |-> << >>, written |-> << >>]]
    /\ cpc = "idle"
    /\ cmsg = Null
    /\ cby = "none"
    /\ cwire = << >>
    /\ cout = Null
    /\ dcache = << >>
    /\ dseen = {}
    /\ dorder = << >>
    /\ dever = FALSE
    /\ dcalls = 0
    /\ dlast = [kind |-> "none"]
    /\ fnode = Null
    /\ fsent = << >>
    /\ fpos = 0
    /\ fextracted = << >>
    /\ fchunk = 0
    /\ nnode = Null
    /\ nopen = {}
    /\ nsock = 0
    /\ nfresh = 0
    /\ nhist = << >>
    /\ nlast = [op |-> "none"]
    /\ lnow = 0
    /\ ltimers = {}
    /\ lpeer = << >>

InitFault ==
    /\ nnode = handleIncomingConnection(
                   NewContext(handleIncomingConnection(
                       NewContext(handleIncomingConnection(
                           NewContext(start(NewContext(P2PNetworkManager(
                               NodeListenPort, Str(<< 65 >>)))).node),
                           1, 2, EphemeralPort(1), NodeNow).node),
                       2, 3, EphemeralPort(2), NodeNow).node),
                   3, 2, EphemeralPort(3), NodeNow).node
    /\ nopen = {1, 2, 3}
    /\ nsock = 3
    /\ nfresh = 0
    /\ nhist = [key \in {PeerKey(2, EphemeralPort(1)), PeerKey(3, EphemeralPort(2)),
                          PeerKey(2, EphemeralPort(3))} |-> 0]
    /\ nlast = [op |-> "none"]
    /\ lnow = 0
    /\ ltimers = {}
    /\ lpeer = << >>
    /\ cpc = "idle"
    /\ cmsg = Null
    /\ cby = "none"
    /\ cwire = << >>
    /\ cout = Null
    /\ dcache = << >>
    /\ dseen = {}
    /\ dorder = << >>
    /\ dever = FALSE
    /\ dcalls = 0
    /\ dlast = [kind |-> "none"]
    /\ fnode = Null
    /\ fsent = << >>
    /\ fpos = 0
    /\ fextracted = << >>
    /\ fchunk = 0
    /\ mnodes = << >>
    /\ mchan = << >>
    /\ mstage = << >>
    /\ msent = Null
    /\ mdelivered = {}
    /\ mevict = FALSE
    /\ mseq = << >>
    /\ mhops = 0
    /\ mtick = 0
    /\ pdialer = 0
    /\ plog = << >>

\* a started node that has accepted three connections
InitHandler ==
    /\ nnode = handleIncomingConnection(
                   NewContext(handleIncomingConnection(
                       NewContext(handleIncomingConnection(
                           NewContext(start(NewContext(P2PNetworkManager(
                               NodeListenPort, Str(<< 65 >>)))).node),
                           1, 2, EphemeralPort(1), NodeNow).node),
                       2, 3, EphemeralPort(2), NodeNow).node),
                   3, 2, EphemeralPort(3), NodeNow).node
    /\ nopen = {1, 2, 3}
    /\ nsock = 3
    /\ nfresh = 0
    /\ nhist = << >>
    /\ nlast = [op |-> "none"]
    /\ lnow = 0
    /\ ltimers = {}
    /\ lpeer = << >>
    /\ cpc = "idle"
    /\ cmsg = Null
    /\ cby = "none"
    /\ cwire = << >>
    /\ cout = Null
    /\ dcache = << >>
    /\ dseen = {}
    /\ dorder = << >>
    /\ dever = FALSE
    /\ dcalls = 0
    /\ dlast = [kind |-> "none"]
    /\ fnode = Null
    /\ fsent = << >>
    /\ fpos = 0
    /\ fextracted = << >>
    /\ fchunk = 0
    /\ mnodes = << >>
    /\ mchan = << >>
    /\ mstage = << >>
    /\ msent = Null
    /\ mdelivered = {}
    /\ mevict = FALSE
    /\ mseq = << >>
    /\ mhops = 0
    /\ mtick = 0
    /\ pdialer = 0
    /\ plog = << >>

InitStream ==
    /\ nnode = handleIncomingConnection(
                   NewContext(handleIncomingConnection(
                       NewContext(handleIncomingConnection(
                           NewContext(start(NewContext(P2PNetworkManager(
                               NodeListenPort, Str(<< 65 >>)))).node),
                           1, 2, EphemeralPort(1), NodeNow).node),
                       2, 3, EphemeralPort(2), NodeNow).node),
                   3, 2, EphemeralPort(3), NodeNow).node
    /\ nopen = {1, 2, 3}
    /\ nsock = 3
    /\ nfresh = 0
    /\ nhist = [received |-> << >>, handled |-> << >>, written |-> << >>]
    /\ nlast = [op |-> "none"]
    /\ lnow = 0
    /\ ltimers = {}
    /\ lpeer = << >>
    /\ cpc = "idle"
    /\ cmsg = Null
    /\ cby = "none"
    /\ cwire = << >>
    /\ cout = Null
    /\ dcache = << >>
    /\ dseen = {}
    /\ dorder = << >>
    /\ dever = FALSE
    /\ dcalls = 0
    /\ dlast = [kind |-> "none"]
    /\ fnode = Null
    /\ fsent = << >>
    /\ fpos = 0
    /\ fextracted = << >>
    /\ fchunk = 0
    /\ mnodes = << >>
    /\ mchan = << >>
    /\ mstage = << >>
    /\ msent = Null
    /\ mdelivered = {}
    /\ mevict = FALSE
    /\ mseq = << >>
    /\ mhops = 0
    /\ mtick = 0
    /\ pdialer = 0
    /\ plog = << >>

\* a node constructed and started at time 0, its cleanup timer armed
InitLife ==
    /\ nnode = start(NewContext(P2PNetworkManager(NodeListenPort, Str(<< 65 >>)))).node
    /\ nopen = {}
    /\ nsock = 0
    /\ nfresh = 0
    /\ nhist = << >>
    /\ nlast = [op |-> "none"]
    /\ lnow = 0
    /\ ltimers = {1}
    /\ lpeer = EmptyMap
    /\ cpc = "idle"
    /\ cmsg = Null
    /\ cby = "none"
    /\ cwire = << >>
    /\ cout = Null
    /\ dcache = << >>
    /\ dseen = {}
    /\ dorder = << >>
    /\ dever = FALSE
    /\ dcalls = 0
    /\ dlast = [kind |-> "none"]
    /\ fnode = Null
    /\ fsent = << >>
    /\ fpos = 0
    /\ fextracted = << >>
    /\ fchunk = 0
    /\ mnodes = << >>
    /\ mchan = << >>
    /\ mstage = << >>
    /\ msent = Null
    /\ mdelivered = {}
    /\ mevict = FALSE
    /\ mseq = << >>
    /\ mhops = 0
    /\ mtick = 0
    /\ pdialer = 0
    /\ plog = << >>

SpecCodec == InitCodec /\ [][CodecNext]_vars

SpecDedup == InitDedup /\ [][DedupNext]_vars

SpecFramer == InitFramer /\ [][FramerNext]_vars

SpecNode == InitNode /\ [][NodeNext]_vars

SpecDup == InitDup /\ [][DupNext]_vars

SpecStream == InitStream /\ [][StreamNext]_vars

SpecFault == InitFault /\ [][FaultNext]_vars

SpecPair == InitPair /\ [][PairNext]_vars

SpecHandler == InitHandler /\ [][HandlerNext]_vars

SpecDial == InitDial /\ [][DialNext]_vars

\* a dialing socket that has had no event gets one: 'connect', 'error' or
\* 'timeout'.  DialConnect, DialError and DialTimeout on such a socket are the
\* steps that raise nfresh.
DialEventArrives ==
    (\E socket \in DOMAIN nhist : nhist[socket] = "pending") /\ nfresh' = nfresh + 1

SpecDialFair == SpecDial /\ WF_nfresh(DialEventArrives)

SpecLife == InitLife /\ [][LifeNext]_vars

SpecMesh == InitMesh /\ [][MeshNext]_vars

\* data written to an open socket arrives: a 'data' event that stays possible
\* happens.  MeshDeliver is the one action that changes mtick, and it is enabled
\* exactly when some socket is readable.
DataArrives == (\E s \in MeshSockets : Readable(s)) /\ mtick' = 1 - mtick

SpecMeshFair == SpecMesh /\ WF_mtick(DataArrives)

SpecPing == InitPing /\ [][PingNext]_vars

SpecPingFair == SpecPing /\ WF_mtick(DataArrives)

=============================================================================
